---- MODULE Spec2Model ----
(***************************************************************************)
(* TalentScout hiring assistant: the dialogue controller                   *)
(* (src/hiring_assistant.py), the input extractor/validator                *)
(* (src/TalentScout AI Hiring Asisstant/data_validator.py) and the part of *)
(* the front end that drives the controller (src/app.py).                  *)
(*                                                                         *)
(* Text is a sequence of one-character strings.  The external              *)
(* text-generation service is the environment: each call either fails or   *)
(* answers with one text of a small set.                                   *)
(***************************************************************************)
EXTENDS Integers, Sequences, FiniteSets, TLC

(***************************************************************************)
(* Characters and the str methods the code uses                            *)
(***************************************************************************)
UpperLetters ==
    << "A","B","C","D","E","F","G","H","I","J","K","L","M",
       "N","O","P","Q","R","S","T","U","V","W","X","Y","Z" >>

LowerLetters ==
    << "a","b","c","d","e","f","g","h","i","j","k","l","m",
       "n","o","p","q","r","s","t","u","v","w","x","y","z" >>

Range(f) == { f[i] : i \in DOMAIN f }

Digits == { "0","1","2","3","4","5","6","7","8","9" }

Letters == Range(UpperLetters) \cup Range(LowerLetters)

\* str.isspace for the characters of the model
Whitespace == { " ", "\t", "\n" }

\* the regular expression class \w
WordChars == Letters \cup Digits \cup { "_" }

\* str.lower on one character
LowerChar(c) ==
    IF c \in Range(UpperLetters)
    THEN LowerLetters[CHOOSE i \in DOMAIN UpperLetters : UpperLetters[i] = c]
    ELSE c

\* str.upper on one character
UpperChar(c) ==
    IF c \in Range(LowerLetters)
    THEN UpperLetters[CHOOSE i \in DOMAIN LowerLetters : LowerLetters[i] = c]
    ELSE c

\* str.lower
Lower(s) == [ i \in DOMAIN s |-> LowerChar(s[i]) ]

\* str.upper
Upper(s) == [ i \in DOMAIN s |-> UpperChar(s[i]) ]

\* s[a:b] with 1-based inclusive positions; empty when a > b
Slice(s, a, b) == IF a > b THEN << >> ELSE SubSeq(s, a, b)

\* str.lstrip
RECURSIVE LStrip(_)
LStrip(s) ==
    IF s # << >> /\ Head(s) \in Whitespace THEN LStrip(Tail(s)) ELSE s

\* str.rstrip
RECURSIVE RStrip(_)
RStrip(s) ==
    IF s # << >> /\ s[Len(s)] \in Whitespace
    THEN RStrip(SubSeq(s, 1, Len(s) - 1))
    ELSE s

\* str.strip: drop the leading and trailing whitespace
Strip(s) == RStrip(LStrip(s))

\* `needle in s` for strings
Contains(s, needle) ==
    \E i \in 1 .. (Len(s) - Len(needle) + 1) :
        SubSeq(s, i, i + Len(needle) - 1) = needle

\* str.count of one character
CountChar(s, c) == Cardinality({ i \in DOMAIN s : s[i] = c })

\* str.split(): the maximal runs of non-whitespace characters, in order
RECURSIVE SplitFrom(_, _)
SplitFrom(s, i) ==
    IF i > Len(s) THEN << >>
    ELSE IF s[i] \in Whitespace THEN SplitFrom(s, i + 1)
    ELSE LET stops == { j \in i .. Len(s) : s[j] \in Whitespace }
             e == IF stops = {} THEN Len(s)
                  ELSE (CHOOSE j \in stops : \A k \in stops : j <= k) - 1
         IN  << SubSeq(s, i, e) >> \o SplitFrom(s, e + 1)

Split(s) == SplitFrom(s, 1)

\* ' '.join(words)
RECURSIVE JoinSpace(_)
JoinSpace(words) ==
    IF words = << >> THEN << >>
    ELSE IF Len(words) = 1 THEN words[1]
    ELSE words[1] \o << " " >> \o JoinSpace(Tail(words))

\* the characters of s that lie in the class keep, in order
Filter(s, keep) == SelectSeq(s, LAMBDA c : c \in keep)

(***************************************************************************)
(* The regular expressions of DataValidator: a pattern is a sequence of    *)
(* items, each a word boundary or a character class with a greedy          *)
(* repetition {min,max}; re.search returns the leftmost match, and at one  *)
(* start the first one in backtracking order (longest repetition first).   *)
(***************************************************************************)
None == << >>

Some(v) == << v >>

Boundary == [ kind |-> "b", class |-> {}, min |-> 0, max |-> 0, many |-> FALSE ]

\* class{lo,hi}
Rep(class, lo, hi) ==
    [ kind |-> "c", class |-> class, min |-> lo, max |-> hi, many |-> FALSE ]

\* class{lo,}
Many(class, lo) ==
    [ kind |-> "c", class |-> class, min |-> lo, max |-> lo, many |-> TRUE ]

\* \b at the gap before position pos
IsBoundary(s, pos) ==
    LET before == pos > 1 /\ s[pos - 1] \in WordChars
        after  == pos <= Len(s) /\ s[pos] \in WordChars
    IN  before # after

\* the length of the run of class characters that starts at pos, at most cap
RunLen(s, pos, class, cap) ==
    LET rest == Len(s) - pos + 1
        most == IF rest < cap THEN (IF rest < 0 THEN 0 ELSE rest) ELSE cap
    IN  CHOOSE k \in 0 .. most :
            /\ \A i \in pos .. pos + k - 1 : s[i] \in class
            /\ k = most \/ s[pos + k] \notin class

\* Some(position after the first match of items[k..] at pos), or None
RECURSIVE MatchAt(_, _, _, _)
RECURSIVE TryRep(_, _, _, _, _)
MatchAt(s, pos, items, k) ==
    IF k > Len(items) THEN Some(pos)
    ELSE IF items[k].kind = "b"
         THEN IF IsBoundary(s, pos) THEN MatchAt(s, pos, items, k + 1) ELSE None
         ELSE TryRep(s, pos, items, k,
                     RunLen(s, pos, items[k].class,
                            IF items[k].many THEN Len(s) ELSE items[k].max))

\* item k repeated n times at most: the longest repetition after which the
\* rest of the pattern matches
TryRep(s, pos, items, k, n) ==
    LET tries == { << m, MatchAt(s, pos + m, items, k + 1) >> : m \in items[k].min .. n }
        fits == { try \in tries : try[2] # None }
    IN  IF fits = {} THEN None
        ELSE (CHOOSE try \in fits : \A other \in fits : other[1] <= try[1])[2]

\* pattern.search(s): None or Some(match.group(0)), the leftmost match
Search(s, items) ==
    LET starts == { i \in 1 .. Len(s) + 1 : MatchAt(s, i, items, 1) # None }
    IN  IF starts = {} THEN None
        ELSE LET i == CHOOSE a \in starts : \A b \in starts : a <= b
             IN  Some(Slice(s, i, MatchAt(s, i, items, 1)[1] - 1))

(***************************************************************************)
(* DataValidator                                                           *)
(***************************************************************************)
EmailLocalClass == Letters \cup Digits \cup { ".", "_", "%", "+", "-" }

EmailDomainClass == Letters \cup Digits \cup { ".", "-" }

EmailTldClass == Letters \cup { "|" }

\* \b[A-Za-z0-9._%+-]+@[A-Za-z0-9.-]+\.[A-Z|a-z]{2,}\b
email_pattern ==
    << Boundary, Many(EmailLocalClass, 1), Rep({ "@" }, 1, 1),
       Many(EmailDomainClass, 1), Rep({ "." }, 1, 1), Many(EmailTldClass, 2),
       Boundary >>

PhoneSep == { "-", "." } \cup Whitespace

\* \+?\d{1,3}[-.\s]?\(?\d{3}\)?[-.\s]?\d{3}[-.\s]?\d{4}
phone_pattern_intl ==
    << Rep({ "+" }, 0, 1), Rep(Digits, 1, 3), Rep(PhoneSep, 0, 1),
       Rep({ "(" }, 0, 1), Rep(Digits, 3, 3), Rep({ ")" }, 0, 1),
       Rep(PhoneSep, 0, 1), Rep(Digits, 3, 3), Rep(PhoneSep, 0, 1),
       Rep(Digits, 4, 4) >>

\* \(?\d{3}\)?[-.\s]?\d{3}[-.\s]?\d{4}
phone_pattern_local ==
    << Rep({ "(" }, 0, 1), Rep(Digits, 3, 3), Rep({ ")" }, 0, 1),
       Rep(PhoneSep, 0, 1), Rep(Digits, 3, 3), Rep(PhoneSep, 0, 1),
       Rep(Digits, 4, 4) >>

\* \d{10,}
phone_pattern_digits == << Many(Digits, 10) >>

phone_patterns ==
    << phone_pattern_intl, phone_pattern_local, phone_pattern_digits >>

\* \b(\d+(?:\.\d+)?)\b with the optional group taken
experience_pattern_decimal ==
    << Boundary, Many(Digits, 1), Rep({ "." }, 1, 1), Many(Digits, 1), Boundary >>

\* \b(\d+(?:\.\d+)?)\b with the optional group skipped
experience_pattern_integer == << Boundary, Many(Digits, 1), Boundary >>

\* experience_pattern.findall(text)[0], or None: at one start the digits
\* are taken greedily and the fraction is tried before it is skipped
experience_first(s) ==
    LET at(i) == LET d == MatchAt(s, i, experience_pattern_decimal, 1)
                     n == MatchAt(s, i, experience_pattern_integer, 1)
                 IN  IF d # None THEN d ELSE n
        starts == { i \in 1 .. Len(s) + 1 : at(i) # None }
    IN  IF starts = {} THEN None
        ELSE LET i == CHOOSE a \in starts : \A b \in starts : a <= b
             IN  Some(Slice(s, i, at(i)[1] - 1))

is_valid_email(email) ==
    IF email = << >> \/ Len(email) > 254 THEN FALSE
    ELSE IF CountChar(email, "@") # 1 THEN FALSE
    ELSE LET at == CHOOSE i \in DOMAIN email : email[i] = "@"
             local == Slice(email, 1, at - 1)
             domain == Slice(email, at + 1, Len(email))
         IN  IF local = << >> \/ Len(local) > 64 THEN FALSE
             ELSE IF domain = << >> \/ Len(domain) > 253 THEN FALSE
             ELSE IF ~ Contains(domain, << "." >>) THEN FALSE
             ELSE TRUE

extract_email(text) ==
    LET match == Search(text, email_pattern)
    IN  IF match # None /\ is_valid_email(match[1])
        THEN Some(Lower(match[1]))
        ELSE None

is_valid_phone(phone) ==
    IF phone = << >> THEN FALSE
    ELSE LET digits_only == Filter(phone, Digits)
         IN  10 <= Len(digits_only) /\ Len(digits_only) <= 15

\* a variant that writes an 11-digit number like a 10-digit one
clean_phone_number_short(phone0) ==
    LET phone == Strip(phone0)
        digits_only == Filter(phone, Digits)
    IN  IF Len(digits_only) = 10
        THEN << "(" >> \o Slice(digits_only, 1, 3) \o << ")", " " >>
             \o Slice(digits_only, 4, 6) \o << "-" >> \o Slice(digits_only, 7, 10)
        ELSE IF Len(digits_only) = 11 /\ digits_only[1] = "1"
        THEN << "(" >> \o Slice(digits_only, 2, 4) \o << ")", " " >>
             \o Slice(digits_only, 5, 7) \o << "-" >> \o Slice(digits_only, 8, 11)
        ELSE phone

clean_phone_number(phone0) ==
    LET phone == Strip(phone0)
        digits_only == Filter(phone, Digits)
    IN  IF Len(digits_only) = 10
        THEN << "(" >> \o Slice(digits_only, 1, 3) \o << ")", " " >>
             \o Slice(digits_only, 4, 6) \o << "-" >> \o Slice(digits_only, 7, 10)
        ELSE IF Len(digits_only) = 11 /\ digits_only[1] = "1"
        THEN << "+", "1", " ", "(" >> \o Slice(digits_only, 2, 4) \o << ")", " " >>
             \o Slice(digits_only, 5, 7) \o << "-" >> \o Slice(digits_only, 8, 11)
        ELSE phone

PhoneKeep == Digits \cup { "+", "-", "(", ")", "." } \cup Whitespace

\* the loop over phone_patterns from pattern k on
RECURSIVE extract_phone_from(_, _)
extract_phone_from(cleaned_text, k) ==
    IF k > Len(phone_patterns) THEN None
    ELSE LET match == Search(cleaned_text, phone_patterns[k])
         IN  IF match # None /\ is_valid_phone(clean_phone_number(match[1]))
             THEN Some(clean_phone_number(match[1]))
             ELSE extract_phone_from(cleaned_text, k + 1)

\* a variant that returns the whole cleaned text once a number is found in it
extract_phone_text(text) ==
    IF extract_phone_from(Filter(text, PhoneKeep), 1) # None
    THEN Some(Strip(Filter(text, PhoneKeep)))
    ELSE None

extract_phone(text) == extract_phone_from(Filter(text, PhoneKeep), 1)

\* the value of one decimal digit
DigitValue(c) ==
    CASE c = "0" -> 0 [] c = "1" -> 1 [] c = "2" -> 2 [] c = "3" -> 3
      [] c = "4" -> 4 [] c = "5" -> 5 [] c = "6" -> 6 [] c = "7" -> 7
      [] c = "8" -> 8 [] c = "9" -> 9

\* int(digits)
RECURSIVE DigitsValue(_)
DigitsValue(ds) ==
    IF ds = << >> THEN 0
    ELSE DigitsValue(SubSeq(ds, 1, Len(ds) - 1)) * 10 + DigitValue(ds[Len(ds)])

\* ds without its leading zeros ("0" for zero)
RECURSIVE StripLeadingZeros(_)
StripLeadingZeros(ds) ==
    IF Len(ds) > 1 /\ Head(ds) = "0" THEN StripLeadingZeros(Tail(ds))
    ELSE IF ds = << >> THEN << "0" >> ELSE ds

\* ds without its trailing zeros
RECURSIVE StripTrailingZeros(_)
StripTrailingZeros(ds) ==
    IF ds # << >> /\ ds[Len(ds)] = "0"
    THEN StripTrailingZeros(SubSeq(ds, 1, Len(ds) - 1))
    ELSE ds

\* float(numeral) for a numeral digits or digits.digits: the number as its
\* canonical decimal expansion, so that equal numbers are equal values
\* (the rounding of a numeral of more than 15 significant digits is left out)
Float(numeral) ==
    LET dots == { i \in DOMAIN numeral : numeral[i] = "." }
    IN  IF dots = {}
        THEN [ whole |-> StripLeadingZeros(numeral), frac |-> << >> ]
        ELSE LET p == CHOOSE i \in dots : TRUE
             IN  [ whole |-> StripLeadingZeros(Slice(numeral, 1, p - 1)),
                   frac |-> StripTrailingZeros(Slice(numeral, p + 1, Len(numeral))) ]

\* a variant that accepts every number below 100
InRange_wide(q) == Len(q.whole) <= 2

\* 0 <= experience <= 50
InRange(q) ==
    /\ Len(q.whole) <= 2
    /\ \/ DigitsValue(q.whole) < 50
       \/ DigitsValue(q.whole) = 50 /\ q.frac = << >>

\* the floats 0.0 and 0.5
FloatZero == [ whole |-> << "0" >>, frac |-> << >> ]

FloatHalf == [ whole |-> << "0" >>, frac |-> << "5" >> ]

FreshWords ==
    { << "f","r","e","s","h" >>, << "g","r","a","d","u","a","t","e" >>,
      << "e","n","t","r","y" >>, << "n","e","w" >>,
      << "b","e","g","i","n","n","e","r" >> }

extract_experience(text) ==
    LET matches == experience_first(text)
        text_lower == Lower(text)
    IN  IF matches # None /\ InRange(Float(matches[1]))
        THEN Some(Float(matches[1]))
        ELSE IF \E word \in FreshWords : Contains(text_lower, word)
        THEN Some(FloatZero)
        ELSE IF Contains(text_lower, << "i","n","t","e","r","n" >>)
        THEN Some(FloatHalf)
        ELSE None

SanitizeDrop == { "<", ">", "\"", "'" }

\* a variant that collapses the whitespace before it removes the characters
sanitize_text_late(text) ==
    IF text = << >> THEN << >>
    ELSE LET joined == JoinSpace(Split(text))
             removed == Filter(joined, { joined[i] : i \in DOMAIN joined } \ SanitizeDrop)
         IN  Slice(removed, 1, IF Len(removed) < 1000 THEN Len(removed) ELSE 1000)

sanitize_text(text) ==
    IF text = << >> THEN << >>
    ELSE LET removed == Filter(text, { text[i] : i \in DOMAIN text } \ SanitizeDrop)
             limited == Slice(removed, 1, IF Len(removed) < 1000 THEN Len(removed) ELSE 1000)
         IN  JoinSpace(Split(limited))

(***************************************************************************)
(* The callers' inputs                                                     *)
(***************************************************************************)
\* a text every collection stage accepts: a name, a numeral, an address and
\* a phone number
InFull ==
    << "A","l"," ","B","o"," ","3",".","5","0"," ","A","@","b",".","c","o"," ",
       "5","5","5","1","2","3","4","5","6","7" >>

\* the same with a termination word in it
InQuit ==
    << "A","l"," ","E","n","d"," ","3",".","5","0"," ","A","@","b",".","c","o"," ",
       "5","5","5","1","2","3","4","5","6","7" >>

\* a filler word, padded
InFiller == << " ","N","o","n","e"," " >>

\* a whitespace-only text
InBlank == << " ","\t" >>

Inputs == { InFull, InQuit, InFiller, InBlank }

(***************************************************************************)
(* The texts given to the methods of the validator                         *)
(***************************************************************************)
\* the longest of the digit strings
MaxDigits == 16

\* the character c, n times
Repeat(c, n) == [ i \in 1 .. n |-> c ]

DigitChars == << "0","1","2","3","4","5","6","7","8","9" >>

\* a string of n digits that starts with first
DigitString(first, n) ==
    << first >> \o [ i \in 1 .. n - 1 |-> DigitChars[((i + 1) % 10) + 1] ]

\* strings of digits only
DigitTexts == { DigitString(first, n) : first \in { "1", "5" }, n \in 1 .. MaxDigits }

\* phone numbers as they are written, alone and within other text
PhoneTexts ==
    { << "5","5","5","-","1","2","3","-","4","5","6","7" >>,
      << "(","5","5","5",")"," ","1","2","3","-","4","5","6","7" >>,
      << "+","1","-","5","5","5","-","1","2","3","-","4","5","6","7" >>,
      << "1"," ","5","5","5"," ","1","2","3"," ","4","5","6","7" >>,
      << "+","9","1"," ","9","8","7"," ","6","5","4"," ","3","2","1","0" >>,
      << "1","2"," ","5","5","5","1","2","3","4","5","6","7" >>,
      << "c","a","l","l"," ","5","5","5",".","1","2","3",".","4","5","6","7"," ","x","8","9" >>,
      << "5","5","5","-","1","2","3","4" >>,
      << "5"," ","5"," ","5"," ","1"," ","2"," ","3"," ","4"," ","5"," ","6"," ","7" >> }

\* addresses and texts around them
EmailTexts ==
    { << "a","@","b",".","c","o" >>,
      << "J","o",".","E","@","M","a","i","l",".","O","r","g" >>,
      << "m","e",":"," ","J","o","@","x","-","y",".","o","r","g","." >>,
      << "a","b",".","c","o" >>,
      << "a","@","b" >>,
      << "a","@","b",".","c" >>,
      << "a","@","@","b",".","c","o" >>,
      << "a","@","b","@","c",".","c","o" >>,
      << "a","@","b",".","c","o"," ","c","@","d",".","c","o" >>,
      << "a","@","b"," ","c","@","d",".","c","o" >>,
      Repeat("a", 64) \o << "@","b",".","c","o" >>,
      Repeat("a", 65) \o << "@","b",".","c","o" >>,
      Repeat("a", 64) \o << "@" >> \o Repeat("b", 186) \o << ".","c","o" >>,
      Repeat("a", 64) \o << "@" >> \o Repeat("b", 187) \o << ".","c","o" >>,
      << "a","@" >> \o Repeat("b", 250) \o << ".","c","o" >> }

\* numerals and the words that stand for an experience
ExperienceTexts ==
    { << "0" >>, << "5","0" >>, << "5","0",".","0" >>, << "5","0",".","5" >>,
      << "5","1" >>, << "0","7",".","2","5","0" >>,
      << "7"," ","a","n","d"," ","9","9" >>,
      << "9","9"," ","a","n","d"," ","7" >>,
      << "9","9"," ","F","r","e","s","h" >>,
      << "I","n","t","e","r","n"," ","7","7" >>,
      << "1","0","0"," ","i","n","t","e","r","n"," ","g","r","a","d","u","a","t","e" >>,
      << "n","e","w" >>, << "b","e","g","i","n","n","e","r" >>,
      << "n","o"," ","i","d","e","a" >>,
      << "v","2"," ","x","3" >>,
      << "-","5" >>, << "1",".","5","a" >>,
      << "6","0"," ","y","e","a","r","s" >> }

\* markup, quotes, runs of whitespace and a text of more than 1000 characters
SanitizeTexts ==
    { << >>,
      << "<","b",">","'","x","'"," "," ","y","\n","\"","z"," ",">" >>,
      << " ","\t","<",">","\n" >>,
      << "a"," ","b" >>,
      << "<" >> \o Repeat("x", 997) \o << " "," ","y"," ","z" >>,
      Repeat("x", 999) \o << " ","y","z" >>,
      Repeat("x", 1000) \o << "<","y" >> }

ValidatorTexts ==
    DigitTexts \cup PhoneTexts \cup EmailTexts \cup ExperienceTexts \cup SanitizeTexts

\* every text of the model
Texts == Inputs \cup ValidatorTexts

\* the function f restricted to S, with its values computed once
Tabulate(f, S) == [ x \in S |-> f[x] ] @@ << >>

\* self.validator: its methods, on the texts of the model
validator ==
    [ extract_email |-> Tabulate([ t \in Texts |-> extract_email(t) ], Texts),
      extract_phone |-> Tabulate([ t \in Texts |-> extract_phone(t) ], Texts),
      extract_experience |->
          Tabulate([ t \in Texts |-> extract_experience(t) ], Texts),
      sanitize_text |-> Tabulate([ t \in Texts |-> sanitize_text(t) ], Texts) ]

(***************************************************************************)
(* Bounds of the model                                                     *)
(***************************************************************************)
\* what a conversation may hold beyond its greeting and the inputs InFull:
\* see Extra
MaxExtra == 2

\* the entries of the transcript, where every public operation is called at
\* any time: see WithinApiBounds
MaxTranscript == 4

\* the inputs of a conversation that is given the texts of the validator:
\* see CollectText
MaxTurns == 5

(***************************************************************************)
(* HiringAssistant: state                                                  *)
(***************************************************************************)
VARIABLES
    client,                   \* self.client is not None
    current_stage,
    candidate_data,
    technical_questions,
    current_question_index,
    current_message,
    conversation_complete,
    conversation_context,
    sentiment_history,
    detected_language,
    response_times,           \* len(self.response_times)
    conversation_started,     \* st.session_state.conversation_started
    given_text,               \* the text given to the methods of the validator
    result                    \* the last call of a method of the validator

vars ==
    << client, current_stage, candidate_data, technical_questions,
       current_question_index, current_message, conversation_complete,
       conversation_context, sentiment_history, detected_language,
       response_times, conversation_started, given_text, result >>

\* ConversationStage, in the order of its declaration
ConversationStage ==
    << "greeting", "collect_name", "collect_email", "collect_phone",
       "collect_experience", "collect_position", "collect_location",
       "collect_tech_stack", "generate_questions", "ask_questions", "complete" >>

\* the HiringAssistant object as one value
Self ==
    [ client |-> client,
      current_stage |-> current_stage,
      candidate_data |-> candidate_data,
      technical_questions |-> technical_questions,
      current_question_index |-> current_question_index,
      current_message |-> current_message,
      conversation_complete |-> conversation_complete,
      conversation_context |-> conversation_context,
      sentiment_history |-> sentiment_history,
      detected_language |-> detected_language,
      response_times |-> response_times ]

\* dict.get(key, default)
Get(d, key, default) == IF key \in DOMAIN d THEN d[key] ELSE default

\* d[key] = value
Put(d, key, value) ==
    [ k \in DOMAIN d \cup { key } |-> IF k = key THEN value ELSE d[k] ]

(***************************************************************************)
(* The text-generation service: a call raises (None), or answers with a    *)
(* text (Some(text), the text possibly empty)                              *)
(***************************************************************************)
\* answers to the language detection prompt
LangAnswers == { None, Some(<< "e","n" >>), Some(<< " ","H","I","\n" >>) }

\* answers to the sentiment prompt
SentimentAnswers ==
    { None, Some(<< "n","e","r","v","o","u","s" >>),
      Some(<< "N","E","U","T","R","A","L" >>) }

\* answers to the name extraction prompt
NameAnswers ==
    { None, Some(<< >>), Some(<< " ","n","o","n","e","\n" >>),
      Some(<< "A","l" >>), Some(<< "B","o"," ","A","l","\n" >>) }

\* answers to the question generation prompt: none, an empty text, texts
\* without a question, and a text of six list items among other lines
QuestionAnswers ==
    { None, Some(<< >>), Some(<< "O","k","." >>),
      Some(<< "S","u","r","e","!","\n","1","." >>),
      Some(<< "1","."," ","Q","a","?","\n","\n","-"," ","Q","b","?","\n","Q","c","?","\n",
              "3","c","\n","4","d","\n","5","e","\n","6","f" >>) }

\* the service's answers during one call of the controller: the calls that
\* are not made, or whose answer is not used, answer None.  personalize and
\* translate are whether the service rewrites the message the call leaves
\* as current_message (a message composed earlier in the call is overwritten)
NoAnswers ==
    [ lang |-> None, sentiment |-> None, name |-> None, questions |-> None,
      dominant |-> None, personalize |-> FALSE, translate |-> FALSE ]

(***************************************************************************)
(* HiringAssistant: messages                                               *)
(***************************************************************************)
GreetingMessage ==
    << "Hello! Welcome to TalentScout's AI-powered hiring assistant. ... Could you please tell me your full name?" >>

EndingMessage(data) ==
    << "Thank you, " >> \o Get(data, "full_name", << "there" >>)
    \o << "! ... We have your email (" >> \o Get(data, "email", << "on file" >>)
    \o << ") and will reach out there. ... recorded for recruitment purposes only." >>

FallbackResponses ==
    { << "I didn't quite understand that. Could you please rephrase your response?" >>,
      << "I'm here to help with your interview process. Could you please provide the information I requested?" >>,
      << "Let's stay focused on gathering your information. Could you please answer the current question?" >>,
      << "I need to collect some specific information from you. Please respond to the current question." >> }

ErrorMessage ==
    << "I apologize, but I encountered an issue processing your response. ... just type 'end' or 'quit'." >>

\* recent_sentiments = the sentiments of sentiment_history[-3:]
RecentSentiments(self) ==
    LET h == self.sentiment_history
        n == Len(h)
    IN  [ i \in 1 .. (IF n < 3 THEN n ELSE 3) |->
              h[n - (IF n < 3 THEN n ELSE 3) + i].sentiment ]

\* the values max(set(recent), key=recent.count) can return: a sentiment of
\* the highest count; among several the set's iteration order decides
DominantSentiments(self) ==
    LET recent == RecentSentiments(self)
        count(x) == Cardinality({ i \in DOMAIN recent : recent[i] = x })
    IN  { x \in Range(recent) : \A y \in Range(recent) : count(y) <= count(x) }

NervousSentiments ==
    { << "N","E","R","V","O","U","S" >>, << "N","E","G","A","T","I","V","E" >> }

PositiveSentiments ==
    { << "C","O","N","F","I","D","E","N","T" >>,
      << "E","N","T","H","U","S","I","A","S","T","I","C" >>,
      << "P","O","S","I","T","I","V","E" >> }

\* _get_personalized_response: dominant is the sentiment max() picks, answer
\* whether the service returns a rewritten text
_get_personalized_response(self, base_message, dominant, answer) ==
    IF self.sentiment_history = << >> \/ ~ self.client THEN base_message
    ELSE IF dominant \in NervousSentiments
    THEN IF answer THEN << "(encouraging) " >> \o base_message ELSE base_message
    ELSE IF dominant \in PositiveSentiments
    THEN IF answer THEN << "(enthusiastic) " >> \o base_message ELSE base_message
    ELSE base_message

\* _get_multilingual_response: answer is whether the service returns a
\* translation
_get_multilingual_response(self, message, answer) ==
    IF self.detected_language = << "e","n" >> \/ ~ self.client THEN message
    ELSE IF answer
    THEN << "(in " >> \o self.detected_language \o << ") " >> \o message
    ELSE message

\* self._get_multilingual_response(self._get_personalized_response(base))
Enriched(self, base_message, svc) ==
    _get_multilingual_response(
        self,
        _get_personalized_response(self, base_message, svc.dominant, svc.personalize),
        svc.translate)

_get_ending_message(self, svc) ==
    _get_multilingual_response(
        self,
        _get_personalized_response(self, EndingMessage(self.candidate_data),
                                   svc.dominant, svc.personalize),
        svc.translate)

(***************************************************************************)
(* HiringAssistant: helpers                                                *)
(***************************************************************************)
ending_keywords ==
    { << "b","y","e" >>, << "g","o","o","d","b","y","e" >>, << "e","x","i","t" >>,
      << "q","u","i","t" >>, << "e","n","d" >>, << "s","t","o","p" >>,
      << "f","i","n","i","s","h" >>, << "d","o","n","e" >>,
      << "c","a","n","c","e","l" >>, << "t","e","r","m","i","n","a","t","e" >>,
      << "c","l","o","s","e" >>, << "l","e","a","v","e" >> }

\* any(keyword in user_input.lower() for keyword in ending_keywords)
HasEndingKeyword(user_input) ==
    \E keyword \in ending_keywords : Contains(Lower(user_input), keyword)

\* the texts of the model that hold an ending keyword
EndingInputs == { t \in Texts : HasEndingKeyword(t) }

\* a variant that compares the whole input with the keywords
_is_ending_keyword_exact(user_input) ==
    Lower(Strip(user_input)) \in ending_keywords

_is_ending_keyword(user_input) == user_input \in EndingInputs

\* _extract_name_with_ai: answer is the service's answer to the prompt
\* a variant whose fallback takes up to two words of the input
_extract_name_with_ai_any(self, user_input, answer) ==
    LET extracted_name == Strip(answer[1])
        words == Split(Strip(user_input))
    IN  IF /\ self.client
           /\ answer # None
           /\ answer[1] # << >>
           /\ Upper(extracted_name) # << "N","O","N","E" >>
           /\ Len(Split(extracted_name)) >= 2
        THEN Some(extracted_name)
        ELSE IF Len(words) >= 2
        THEN Some(words[1] \o << " " >> \o words[2])
        ELSE IF Len(words) = 1 THEN Some(words[1])
        ELSE None

_extract_name_with_ai(self, user_input, answer) ==
    LET extracted_name == Strip(answer[1])
        words == Split(Strip(user_input))
    IN  IF /\ self.client
           /\ answer # None
           /\ answer[1] # << >>
           /\ Upper(extracted_name) # << "N","O","N","E" >>
           /\ Len(Split(extracted_name)) >= 2
        THEN Some(extracted_name)
        ELSE IF Len(words) >= 2
        THEN Some(words[1] \o << " " >> \o words[2])
        ELSE None

\* tech_stack[:100]
First100(text) == Slice(text, 1, IF Len(text) < 100 THEN Len(text) ELSE 100)

_get_fallback_questions(tech_stack) ==
    LET fallback_questions ==
            << << "Can you describe a challenging project you've worked on using the technologies you mentioned: " >>
                   \o First100(tech_stack) \o << "...?" >>,
               << "What's your approach to debugging and troubleshooting issues in your code?" >>,
               << "How do you stay updated with the latest developments in your tech stack?" >>,
               << "Can you walk me through your development workflow from idea to deployment?" >>,
               << "What's one technology from your stack that you'd like to improve your skills in, and why?" >>,
               << "How do you handle version control and collaboration in your development projects?" >>,
               << "What's your experience with testing and quality assurance in your code?" >> >>
    IN  SubSeq(fallback_questions, 1, 5)

\* the character U+2022
Bullet == "(bullet)"

\* text.split('\n')
RECURSIVE SplitLines(_)
SplitLines(text) ==
    LET breaks == { i \in DOMAIN text : text[i] = "\n" }
    IN  IF breaks = {} THEN << text >>
        ELSE LET b == CHOOSE i \in breaks : \A j \in breaks : i <= j
             IN  << Slice(text, 1, b - 1) >>
                 \o SplitLines(Slice(text, b + 1, Len(text)))

\* re.sub(r'^\d+\.?\s*', '', line)
StripNumbering(line) ==
    LET d == RunLen(line, 1, Digits, Len(line))
    IN  IF d = 0 THEN line
        ELSE LET dot == RunLen(line, d + 1, { "." }, 1)
                 ws == RunLen(line, d + dot + 1, Whitespace, Len(line))
             IN  Slice(line, d + dot + ws + 1, Len(line))

\* re.sub(r'^[-•]\s*', '', question)
StripBullet(question) ==
    IF question # << >> /\ question[1] \in { "-", Bullet }
    THEN Slice(question, 2 + RunLen(question, 2, Whitespace, Len(question)),
               Len(question))
    ELSE question

\* the loop over the lines of the response
RECURSIVE ParseQuestions(_)
ParseQuestions(lines) ==
    IF lines = << >> THEN << >>
    ELSE LET line == Strip(Head(lines))
             question == StripBullet(StripNumbering(line))
         IN  (IF /\ line # << >>
                 /\ line[1] \in Digits \cup { "-", Bullet }
                 /\ question # << >>
              THEN << Strip(question) >>
              ELSE << >>)
             \o ParseQuestions(Tail(lines))

\* a variant that keeps every list item of the answer
_generate_technical_questions_all(self, tech_stack, answer) ==
    IF self.client /\ answer # None /\ answer[1] # << >>
    THEN ParseQuestions(SplitLines(Strip(answer[1])))
    ELSE _get_fallback_questions(tech_stack)

\* _generate_technical_questions: answer is the service's answer
_generate_technical_questions(self, tech_stack, answer) ==
    IF self.client /\ answer # None /\ answer[1] # << >>
    THEN LET questions == ParseQuestions(SplitLines(Strip(answer[1])))
         IN  SubSeq(questions, 1, IF Len(questions) < 5 THEN Len(questions) ELSE 5)
    ELSE _get_fallback_questions(tech_stack)

\* str(n)
IntStr(n) == [ i \in 1 .. 1 |-> ToString(n) ]

\* f"question_{n}_answer"
QuestionKey(n) == "question_" \o ToString(n) \o "_answer"

(***************************************************************************)
(* HiringAssistant: operations.  Each maps the object before the call to   *)
(* the object after it; svc holds the service's answers during the call.   *)
(***************************************************************************)
\* a variant that starts with an empty record
start_conversation_reset(self) ==
    [ self EXCEPT
        !.current_stage = "greeting",
        !.candidate_data = [ k \in {} |-> << >> ],
        !.current_message = GreetingMessage,
        !.conversation_context =
            Append(@, [ role |-> "assistant", content |-> GreetingMessage ]) ]

start_conversation(self) ==
    [ self EXCEPT
        !.current_stage = "greeting",
        !.current_message = GreetingMessage,
        !.conversation_context =
            Append(@, [ role |-> "assistant", content |-> GreetingMessage ]) ]

\* a variant that puts the closing message in the place of the last entry
end_conversation_replacing(self, svc) ==
    LET message == _get_ending_message(self, svc)
        n == Len(self.conversation_context)
    IN  [ self EXCEPT
            !.current_message = message,
            !.conversation_complete = TRUE,
            !.conversation_context =
                Append(Slice(@, 1, n - 1), [ role |-> "assistant", content |-> message ]) ]

end_conversation(self, svc) ==
    LET message == _get_ending_message(self, svc)
    IN  [ self EXCEPT
            !.current_message = message,
            !.conversation_complete = TRUE,
            !.conversation_context =
                Append(@, [ role |-> "assistant", content |-> message ]) ]

\* a variant that also keeps the detected language in the record
_analyze_user_input_recording(self, user_input, svc) ==
    IF ~ self.client THEN self
    ELSE LET detected_lang == Lower(Strip(svc.lang[1]))
             detected ==
                 /\ Len(self.conversation_context) <= 6
                 /\ svc.lang # None
                 /\ svc.lang[1] # << >>
                 /\ detected_lang # << "e","n" >>
                 /\ Len(detected_lang) = 2
             history ==
                 IF svc.sentiment # None /\ svc.sentiment[1] # << >>
                 THEN Append(self.sentiment_history,
                             [ text |-> user_input,
                               sentiment |-> Upper(Strip(svc.sentiment[1])) ])
                 ELSE self.sentiment_history
         IN  [ self EXCEPT
                 !.detected_language = IF detected THEN detected_lang ELSE @,
                 !.candidate_data = IF detected THEN Put(@, "language", detected_lang) ELSE @,
                 !.sentiment_history = history ]

_analyze_user_input(self, user_input, svc) ==
    IF ~ self.client THEN self
    ELSE LET detected_lang == Lower(Strip(svc.lang[1]))
             language ==
                 IF /\ Len(self.conversation_context) <= 6
                    /\ svc.lang # None
                    /\ svc.lang[1] # << >>
                    /\ detected_lang # << "e","n" >>
                    /\ Len(detected_lang) = 2
                 THEN detected_lang
                 ELSE self.detected_language
             history ==
                 IF svc.sentiment # None /\ svc.sentiment[1] # << >>
                 THEN Append(self.sentiment_history,
                             [ text |-> user_input,
                               sentiment |-> Upper(Strip(svc.sentiment[1])) ])
                 ELSE self.sentiment_history
         IN  [ self EXCEPT !.detected_language = language,
                           !.sentiment_history = history ]

_process_greeting_response(self, user_input, svc) ==
    LET name == _extract_name_with_ai(self, user_input, svc.name)
    IN  IF name # None
        THEN LET stored == [ self EXCEPT
                    !.candidate_data = Put(@, "full_name", name[1]),
                    !.current_stage = "collect_email" ]
             IN  [ stored EXCEPT !.current_message =
                     Enriched(stored,
                              << "Nice to meet you, " >> \o name[1]
                              \o << "! Next, I'll need your email address for our records. Please provide your email:" >>,
                              svc) ]
        ELSE [ self EXCEPT
                 !.current_stage = "collect_name",
                 !.current_message =
                     _get_multilingual_response(
                         self,
                         << "I'd like to make sure I have your name correctly. Could you please provide your full name (first and last name)?" >>,
                         svc.translate) ]

\* a variant that goes on to the email without a name
_process_name_collection_skip(self, user_input, svc) ==
    LET name == _extract_name_with_ai(self, user_input, svc.name)
    IN  IF name # None
        THEN LET stored == [ self EXCEPT
                    !.candidate_data = Put(@, "full_name", name[1]),
                    !.current_stage = "collect_email" ]
             IN  [ stored EXCEPT !.current_message =
                     Enriched(stored,
                              << "Thank you, " >> \o name[1]
                              \o << "! Now, please provide your email address:" >>,
                              svc) ]
        ELSE [ self EXCEPT
                 !.current_stage = "collect_email",
                 !.current_message =
                     _get_multilingual_response(
                         self,
                         << "I need your full name to proceed. Please provide your first and last name:" >>,
                         svc.translate) ]

_process_name_collection(self, user_input, svc) ==
    LET name == _extract_name_with_ai(self, user_input, svc.name)
    IN  IF name # None
        THEN LET stored == [ self EXCEPT
                    !.candidate_data = Put(@, "full_name", name[1]),
                    !.current_stage = "collect_email" ]
             IN  [ stored EXCEPT !.current_message =
                     Enriched(stored,
                              << "Thank you, " >> \o name[1]
                              \o << "! Now, please provide your email address:" >>,
                              svc) ]
        ELSE [ self EXCEPT !.current_message =
                 _get_multilingual_response(
                     self,
                     << "I need your full name to proceed. Please provide your first and last name:" >>,
                     svc.translate) ]

\* a variant that goes back to the name on an input without an email
_process_email_collection_restart(self, user_input) ==
    LET email == validator.extract_email[user_input]
    IN  IF email # None
        THEN [ self EXCEPT
                 !.candidate_data = Put(@, "email", email[1]),
                 !.current_stage = "collect_phone",
                 !.current_message =
                     << "Great! Now I need your phone number. Please provide your contact number:" >> ]
        ELSE [ self EXCEPT
                 !.current_stage = "collect_name",
                 !.current_message =
                     << "Please provide a valid email address (e.g., john.doe@example.com):" >> ]

_process_email_collection(self, user_input) ==
    LET email == validator.extract_email[user_input]
    IN  IF email # None
        THEN [ self EXCEPT
                 !.candidate_data = Put(@, "email", email[1]),
                 !.current_stage = "collect_phone",
                 !.current_message =
                     << "Great! Now I need your phone number. Please provide your contact number:" >> ]
        ELSE [ self EXCEPT !.current_message =
                 << "Please provide a valid email address (e.g., john.doe@example.com):" >> ]

\* a variant that stores the input instead of the extracted number
_process_phone_collection_raw(self, user_input) ==
    LET phone == validator.extract_phone[user_input]
    IN  IF phone # None
        THEN [ self EXCEPT
                 !.candidate_data = Put(@, "phone", Strip(user_input)),
                 !.current_stage = "collect_experience",
                 !.current_message =
                     << "Perfect! How many years of professional experience do you have? (Please provide a number, e.g., 3, 5.5, etc.)" >> ]
        ELSE [ self EXCEPT !.current_message =
                 << "Please provide a valid phone number (e.g., +1-555-123-4567, (555) 123-4567, etc.):" >> ]

_process_phone_collection(self, user_input) ==
    LET phone == validator.extract_phone[user_input]
    IN  IF phone # None
        THEN [ self EXCEPT
                 !.candidate_data = Put(@, "phone", phone[1]),
                 !.current_stage = "collect_experience",
                 !.current_message =
                     << "Perfect! How many years of professional experience do you have? (Please provide a number, e.g., 3, 5.5, etc.)" >> ]
        ELSE [ self EXCEPT !.current_message =
                 << "Please provide a valid phone number (e.g., +1-555-123-4567, (555) 123-4567, etc.):" >> ]

\* a variant that skips the experience on an input without a number
_process_experience_collection_skip(self, user_input, svc) ==
    LET experience == validator.extract_experience[user_input]
    IN  [ self EXCEPT
            !.candidate_data =
                IF experience # None THEN Put(@, "years_experience", experience[1]) ELSE @,
            !.current_stage = "collect_position",
            !.current_message =
                Enriched(self,
                         << "Excellent! What position(s) are you interested in? (You can mention multiple roles if applicable)" >>,
                         svc) ]

_process_experience_collection(self, user_input, svc) ==
    LET experience == validator.extract_experience[user_input]
    IN  IF experience # None
        THEN [ self EXCEPT
                 !.candidate_data = Put(@, "years_experience", experience[1]),
                 !.current_stage = "collect_position",
                 !.current_message =
                     Enriched(self,
                              << "Excellent! What position(s) are you interested in? (You can mention multiple roles if applicable)" >>,
                              svc) ]
        ELSE [ self EXCEPT !.current_message =
                 _get_multilingual_response(
                     self,
                     << "Please provide your years of experience as a number (e.g., 2, 3.5, 0 for fresh graduate):" >>,
                     svc.translate) ]

\* a variant that takes the position for the location too
_process_position_collection_both(self, user_input) ==
    IF Strip(user_input) # << >>
    THEN [ self EXCEPT
             !.candidate_data = Put(Put(@, "desired_positions", Strip(user_input)),
                                    "location", Strip(user_input)),
             !.current_stage = "collect_tech_stack",
             !.current_message =
                 << "Perfect! Now for the technical part. ... Please tell me about your tech stack and areas of expertise. ..." >> ]
    ELSE [ self EXCEPT !.current_message =
             << "Please tell me what position(s) you're interested in:" >> ]

_process_position_collection(self, user_input) ==
    IF Strip(user_input) # << >>
    THEN [ self EXCEPT
             !.candidate_data = Put(@, "desired_positions", Strip(user_input)),
             !.current_stage = "collect_location",
             !.current_message =
                 << "Great choice! What's your current location? (City, State/Country)" >> ]
    ELSE [ self EXCEPT !.current_message =
             << "Please tell me what position(s) you're interested in:" >> ]

_process_location_collection(self, user_input) ==
    IF Strip(user_input) # << >>
    THEN [ self EXCEPT
             !.candidate_data = Put(@, "location", Strip(user_input)),
             !.current_stage = "collect_tech_stack",
             !.current_message =
                 << "Perfect! Now for the technical part. ... Please tell me about your tech stack and areas of expertise. ..." >> ]
    ELSE [ self EXCEPT !.current_message =
             << "Please provide your current location:" >> ]

\* the message that shows question number n (1-based) of the list
QuestionMessage(opening, n, questions) ==
    << opening, "**Question " >> \o IntStr(n) \o << "/" >> \o IntStr(Len(questions))
    \o << ":**" >> \o questions[n] \o << "Please provide your answer:" >>

\* a variant that does not end the conversation when no question was generated
_process_tech_stack_collection_open(self, user_input, svc) ==
    IF Strip(user_input) # << >>
    THEN LET entered == [ self EXCEPT
                            !.candidate_data = Put(@, "tech_stack", Strip(user_input)),
                            !.current_stage = "generate_questions" ]
             questions == _generate_technical_questions(entered, user_input, svc.questions)
             asked == [ entered EXCEPT
                          !.technical_questions = questions,
                          !.current_question_index = 0,
                          !.current_stage = "ask_questions" ]
         IN  IF questions # << >>
             THEN [ asked EXCEPT !.current_message =
                      Enriched(asked,
                               << "Excellent! Based on your tech stack, I've prepared " >>
                               \o IntStr(Len(questions))
                               \o QuestionMessage(" technical questions for you. Let's begin:",
                                                  1, questions),
                               svc) ]
             ELSE [ asked EXCEPT !.current_message =
                      _get_multilingual_response(
                          asked,
                          << "Thank you for sharing your tech stack! Let me prepare some questions for you..." >>,
                          svc.translate) ]
    ELSE [ self EXCEPT !.current_message =
             << "Please describe your technical skills and expertise:" >> ]

\* a variant that does not leave the stage it enters to generate the questions
_process_tech_stack_collection_pending(self, user_input, svc) ==
    IF Strip(user_input) # << >>
    THEN LET entered == [ self EXCEPT
                            !.candidate_data = Put(@, "tech_stack", Strip(user_input)),
                            !.current_stage = "generate_questions" ]
             questions == _generate_technical_questions(entered, user_input, svc.questions)
             asked == [ entered EXCEPT
                          !.technical_questions = questions,
                          !.current_question_index = 0 ]
         IN  IF questions # << >>
             THEN [ asked EXCEPT !.current_message =
                      Enriched(asked,
                               << "Excellent! Based on your tech stack, I've prepared " >>
                               \o IntStr(Len(questions))
                               \o QuestionMessage(" technical questions for you. Let's begin:",
                                                  1, questions),
                               svc) ]
             ELSE end_conversation(
                      [ asked EXCEPT !.current_message =
                          _get_multilingual_response(
                              asked,
                              << "Thank you for sharing your tech stack! Let me prepare some questions for you..." >>,
                              svc.translate) ],
                      svc)
    ELSE [ self EXCEPT !.current_message =
             << "Please describe your technical skills and expertise:" >> ]

\* the stage is GENERATE_QUESTIONS while the questions are generated
_process_tech_stack_collection(self, user_input, svc) ==
    IF Strip(user_input) # << >>
    THEN LET entered == [ self EXCEPT
                            !.candidate_data = Put(@, "tech_stack", Strip(user_input)),
                            !.current_stage = "generate_questions" ]
             questions == _generate_technical_questions(entered, user_input, svc.questions)
             asked == [ entered EXCEPT
                          !.technical_questions = questions,
                          !.current_question_index = 0,
                          !.current_stage = "ask_questions" ]
         IN  IF questions # << >>
             THEN [ asked EXCEPT !.current_message =
                      Enriched(asked,
                               << "Excellent! Based on your tech stack, I've prepared " >>
                               \o IntStr(Len(questions))
                               \o QuestionMessage(" technical questions for you. Let's begin:",
                                                  1, questions),
                               svc) ]
             ELSE end_conversation(
                      [ asked EXCEPT !.current_message =
                          _get_multilingual_response(
                              asked,
                              << "Thank you for sharing your tech stack! Let me prepare some questions for you..." >>,
                              svc.translate) ],
                      svc)
    ELSE [ self EXCEPT !.current_message =
             << "Please describe your technical skills and expertise:" >> ]

\* a variant that numbers the answers from 0
_process_technical_question_response_zero(self, user_input, svc) ==
    IF Strip(user_input) # << >>
    THEN LET question_key == QuestionKey(self.current_question_index)
             answered == [ self EXCEPT
                             !.candidate_data = Put(@, question_key, Strip(user_input)),
                             !.current_question_index = @ + 1 ]
         IN  IF answered.current_question_index < Len(answered.technical_questions)
             THEN [ answered EXCEPT !.current_message =
                      QuestionMessage("Thank you for your answer!",
                                      answered.current_question_index + 1,
                                      answered.technical_questions) ]
             ELSE end_conversation(answered, svc)
    ELSE [ self EXCEPT !.current_message =
             << "Please provide an answer to the question:" >> ]

_process_technical_question_response(self, user_input, svc) ==
    IF Strip(user_input) # << >>
    THEN LET question_key == QuestionKey(self.current_question_index + 1)
             answered == [ self EXCEPT
                             !.candidate_data = Put(@, question_key, Strip(user_input)),
                             !.current_question_index = @ + 1 ]
         IN  IF answered.current_question_index < Len(answered.technical_questions)
             THEN [ answered EXCEPT !.current_message =
                      QuestionMessage("Thank you for your answer!",
                                      answered.current_question_index + 1,
                                      answered.technical_questions) ]
             ELSE end_conversation(answered, svc)
    ELSE [ self EXCEPT !.current_message =
             << "Please provide an answer to the question:" >> ]

\* _handle_fallback: choice is the response random.choice picks
_handle_fallback(self, choice) == [ self EXCEPT !.current_message = choice ]

\* the stage dispatch of process_user_input
Dispatch(self, user_input, svc, choice) ==
    CASE self.current_stage = "greeting" ->
             _process_greeting_response(self, user_input, svc)
      [] self.current_stage = "collect_name" ->
             _process_name_collection(self, user_input, svc)
      [] self.current_stage = "collect_email" ->
             _process_email_collection(self, user_input)
      [] self.current_stage = "collect_phone" ->
             _process_phone_collection(self, user_input)
      [] self.current_stage = "collect_experience" ->
             _process_experience_collection(self, user_input, svc)
      [] self.current_stage = "collect_position" ->
             _process_position_collection(self, user_input)
      [] self.current_stage = "collect_location" ->
             _process_location_collection(self, user_input)
      [] self.current_stage = "collect_tech_stack" ->
             _process_tech_stack_collection(self, user_input, svc)
      [] self.current_stage = "ask_questions" ->
             _process_technical_question_response(self, user_input, svc)
      [] OTHER -> _handle_fallback(self, choice)

\* a variant without the early return on a blank input
process_user_input_unguarded(self, user_input, svc, choice) ==
    LET analyzed == _analyze_user_input(self, user_input, svc)
        heard == [ analyzed EXCEPT !.conversation_context =
                     Append(@, [ role |-> "user", content |-> user_input ]) ]
    IN  IF _is_ending_keyword(user_input)
        THEN end_conversation(heard, svc)
        ELSE [ Dispatch(heard, user_input, svc, choice) EXCEPT
                 !.response_times = @ + 1 ]

\* a variant that runs the stage handler before the ending keyword check
process_user_input_stage_first(self, user_input, svc, choice) ==
    IF Strip(user_input) = << >> THEN self
    ELSE LET analyzed == _analyze_user_input(self, user_input, svc)
             heard == [ analyzed EXCEPT !.conversation_context =
                          Append(@, [ role |-> "user", content |-> user_input ]) ]
             replied == [ Dispatch(heard, user_input, svc, choice) EXCEPT
                            !.response_times = @ + 1 ]
         IN  IF _is_ending_keyword(user_input)
             THEN end_conversation(replied, svc)
             ELSE replied

process_user_input(self, user_input, svc, choice) ==
    IF Strip(user_input) = << >> THEN self
    ELSE LET analyzed == _analyze_user_input(self, user_input, svc)
             heard == [ analyzed EXCEPT !.conversation_context =
                          Append(@, [ role |-> "user", content |-> user_input ]) ]
         IN  IF _is_ending_keyword(user_input)
             THEN end_conversation(heard, svc)
             ELSE [ Dispatch(heard, user_input, svc, choice) EXCEPT
                      !.response_times = @ + 1 ]

(***************************************************************************)
(* The state machine                                                       *)
(***************************************************************************)
\* no method of the validator was called
NoCall == [ method |-> "none", value |-> None ]

\* HiringAssistant.__init__, and the session state of main before the
\* interview is started
Init ==
    /\ client \in BOOLEAN
    /\ current_stage = "greeting"
    /\ candidate_data = [ k \in {} |-> << >> ]
    /\ technical_questions = << >>
    /\ current_question_index = 0
    /\ current_message = << >>
    /\ conversation_complete = FALSE
    /\ conversation_context = << >>
    /\ sentiment_history = << >>
    /\ detected_language = << "e","n" >>
    /\ response_times = 0
    /\ conversation_started = FALSE
    /\ given_text = << >>
    /\ result = NoCall

\* the object after the call becomes the object
Becomes(new) ==
    /\ client' = new.client
    /\ current_stage' = new.current_stage
    /\ candidate_data' = new.candidate_data
    /\ technical_questions' = new.technical_questions
    /\ current_question_index' = new.current_question_index
    /\ current_message' = new.current_message
    /\ conversation_complete' = new.conversation_complete
    /\ conversation_context' = new.conversation_context
    /\ sentiment_history' = new.sentiment_history
    /\ detected_language' = new.detected_language
    /\ response_times' = new.response_times

\* what the conversation holds beyond its greeting and the inputs of a
\* caller who answers every prompt with InFull: the other transcript
\* entries (other inputs, closing messages), the recorded sentiments and a
\* detected language
Extra(self) ==
    Cardinality({ i \in DOMAIN self.conversation_context :
                    LET entry == self.conversation_context[i]
                    IN  ~ (entry.role = "user" /\ entry.content = InFull) })
    + Len(self.sentiment_history)
    + (IF self.detected_language = << "e","n" >> THEN 0 ELSE 1)

\* the bound on the conversations of the model
WithinBounds(new) == Extra(new) <= 1 + MaxExtra

\* the answers the service can give to the calls _analyze_user_input makes
AnalysisAnswers(self, user_input) ==
    LET called == self.client /\ Strip(user_input) # << >>
    IN  { [ NoAnswers EXCEPT !.lang = l, !.sentiment = t ] :
            l \in IF called /\ Len(self.conversation_context) <= 6
                  THEN LangAnswers ELSE { None },
            t \in IF called THEN SentimentAnswers ELSE { None } }

\* the answers the service can give to the calls of the stage handlers
StageAnswers(self, user_input, base) ==
    LET called == /\ self.client
                  /\ Strip(user_input) # << >>
                  /\ ~ _is_ending_keyword(user_input)
    IN  { [ base EXCEPT !.name = n, !.questions = q ] :
            n \in IF called /\ self.current_stage \in { "greeting", "collect_name" }
                  THEN NameAnswers ELSE { None },
            q \in IF called /\ self.current_stage = "collect_tech_stack"
                  THEN QuestionAnswers ELSE { None } }

\* whether process_user_input(user_input) composes its message through
\* _get_personalized_response and _get_multilingual_response
Composes(self, user_input) ==
    /\ Strip(user_input) # << >>
    /\ \/ _is_ending_keyword(user_input)
       \/ self.current_stage \in { "greeting", "collect_name", "collect_experience",
                                   "collect_tech_stack" }
       \/ /\ self.current_stage = "ask_questions"
          /\ self.current_question_index + 1 >= Len(self.technical_questions)

\* the answers the service can give to the calls that compose the message,
\* for the object as it is once the input is analyzed
RewriteAnswers(self, composes, base) ==
    { [ base EXCEPT !.dominant = d, !.personalize = p, !.translate = t ] :
        d \in IF self.sentiment_history = << >> THEN { None }
              ELSE DominantSentiments(self),
        p \in IF /\ self.client
                 /\ composes
                 /\ DominantSentiments(self)
                       \cap (NervousSentiments \cup PositiveSentiments) # {}
              THEN BOOLEAN ELSE { FALSE },
        t \in IF self.client /\ composes /\ self.detected_language # << "e","n" >>
              THEN BOOLEAN ELSE { FALSE } }

\* the responses random.choice can pick, when _handle_fallback is reached
FallbackChoices(self) ==
    IF self.current_stage \in { "generate_questions", "complete" }
    THEN FallbackResponses
    ELSE { CHOOSE r \in FallbackResponses : TRUE }

\* main, the start button: start_conversation is called once
StartConversation ==
    /\ ~ conversation_started
    /\ conversation_started' = TRUE
    /\ Becomes(start_conversation(Self))
    /\ UNCHANGED << given_text, result >>

\* a caller's process_user_input(user_input) on the started conversation
ProcessUserInput ==
    /\ conversation_started
    /\ \E user_input \in Inputs :
       \E analysis \in AnalysisAnswers(Self, user_input) :
       \* (the bound only grows during the call: tested once the input is analyzed)
       WithinBounds(_analyze_user_input(Self, user_input, analysis)) /\
       \E stage \in StageAnswers(Self, user_input, analysis) :
       \E svc \in RewriteAnswers(_analyze_user_input(Self, user_input, analysis),
                                 Composes(Self, user_input), stage) :
       \E choice \in FallbackChoices(Self) :
           LET new == process_user_input(Self, user_input, svc, choice)
           IN  /\ WithinBounds(new)
               /\ Becomes(new)
    /\ UNCHANGED << conversation_started, given_text, result >>

\* a caller's end_conversation() on the started conversation
EndConversation ==
    /\ conversation_started
    /\ \E svc \in RewriteAnswers(Self, TRUE, NoAnswers) :
           LET new == end_conversation(Self, svc)
           IN  /\ WithinBounds(new)
               /\ Becomes(new)
    /\ UNCHANGED << conversation_started, given_text, result >>

Next == StartConversation \/ ProcessUserInput \/ EndConversation

Spec == Init /\ [][Next]_vars

(***************************************************************************)
(* Any caller of the public operations: each of them at any time, in any   *)
(* order                                                                   *)
(***************************************************************************)
\* the bound on the conversations of any caller: a short transcript
WithinApiBounds(new) ==
    /\ WithinBounds(new)
    /\ Len(new.conversation_context) <= MaxTranscript

\* start_conversation(), also on a conversation already started
ApiStartConversation ==
    /\ LET new == start_conversation(Self)
       IN  /\ WithinApiBounds(new)
           /\ Becomes(new)
    /\ conversation_started' = TRUE
    /\ UNCHANGED << given_text, result >>

\* process_user_input(user_input)
ApiProcessUserInput ==
    /\ \E user_input \in Inputs :
       \E analysis \in AnalysisAnswers(Self, user_input) :
       \* (the bound only grows during the call: tested once the input is analyzed)
       WithinBounds(_analyze_user_input(Self, user_input, analysis)) /\
       \E stage \in StageAnswers(Self, user_input, analysis) :
       \E svc \in RewriteAnswers(_analyze_user_input(Self, user_input, analysis),
                                 Composes(Self, user_input), stage) :
       \E choice \in FallbackChoices(Self) :
           LET new == process_user_input(Self, user_input, svc, choice)
           IN  /\ WithinApiBounds(new)
               /\ Becomes(new)
    /\ UNCHANGED << conversation_started, given_text, result >>

\* end_conversation()
ApiEndConversation ==
    /\ \E svc \in RewriteAnswers(Self, TRUE, NoAnswers) :
           LET new == end_conversation(Self, svc)
           IN  /\ WithinApiBounds(new)
               /\ Becomes(new)
    /\ UNCHANGED << conversation_started, given_text, result >>

NextApi == ApiStartConversation \/ ApiProcessUserInput \/ ApiEndConversation

SpecApi == Init /\ [][NextApi]_vars

(***************************************************************************)
(* The validator: its methods called on a text, and a conversation without *)
(* service that is given that text, up to the stages that use the          *)
(* validator and the first stage that stores the text as it is             *)
(***************************************************************************)
InitValidator ==
    /\ client = FALSE
    /\ current_stage = "greeting"
    /\ candidate_data = [ k \in {} |-> << >> ]
    /\ technical_questions = << >>
    /\ current_question_index = 0
    /\ current_message = << >>
    /\ conversation_complete = FALSE
    /\ conversation_context = << >>
    /\ sentiment_history = << >>
    /\ detected_language = << "e","n" >>
    /\ response_times = 0
    /\ conversation_started = FALSE
    /\ given_text \in ValidatorTexts
    /\ result = NoCall

\* the variables a call of a method of the validator leaves alone
uncalled ==
    << client, current_stage, candidate_data, technical_questions,
       current_question_index, current_message, conversation_complete,
       conversation_context, sentiment_history, detected_language,
       response_times, conversation_started, given_text >>

\* validator.extract_email(given_text)
ExtractEmail ==
    /\ result' = [ method |-> "extract_email",
                   value |-> validator.extract_email[given_text] ]
    /\ UNCHANGED uncalled

\* validator.extract_phone(given_text)
ExtractPhone ==
    /\ result' = [ method |-> "extract_phone",
                   value |-> validator.extract_phone[given_text] ]
    /\ UNCHANGED uncalled

\* validator.extract_experience(given_text)
ExtractExperience ==
    /\ result' = [ method |-> "extract_experience",
                   value |-> validator.extract_experience[given_text] ]
    /\ UNCHANGED uncalled

\* validator.sanitize_text(given_text)
SanitizeText ==
    /\ result' = [ method |-> "sanitize_text",
                   value |-> validator.sanitize_text[given_text] ]
    /\ UNCHANGED uncalled

\* process_user_input on the text, or on a text every stage accepts, while
\* the stage is one of those up to the position
CollectText ==
    /\ conversation_started
    /\ current_stage \in { "greeting", "collect_name", "collect_email",
                           "collect_phone", "collect_experience",
                           "collect_position" }
    /\ Len(conversation_context) <= MaxTurns
    /\ \E user_input \in { InFull, given_text } :
       \E choice \in FallbackChoices(Self) :
           Becomes(process_user_input(Self, user_input, NoAnswers, choice))
    /\ UNCHANGED << conversation_started, given_text, result >>

NextValidator ==
    \/ ExtractEmail
    \/ ExtractPhone
    \/ ExtractExperience
    \/ SanitizeText
    \/ StartConversation
    \/ CollectText

SpecValidator == InitValidator /\ [][NextValidator]_vars

(***************************************************************************)
(* The front end: main is run again after every event, and chooses what it *)
(* offers by the session state and is_conversation_complete()              *)
(***************************************************************************)
\* a variant that offers the form whether or not the conversation is complete
SendInput_always ==
    /\ conversation_started
    /\ \E user_input \in { text \in Inputs : Strip(text) # << >> } :
       \E analysis \in AnalysisAnswers(Self, user_input) :
       WithinBounds(_analyze_user_input(Self, user_input, analysis)) /\
       \E stage \in StageAnswers(Self, user_input, analysis) :
       \E svc \in RewriteAnswers(_analyze_user_input(Self, user_input, analysis),
                                 Composes(Self, user_input), stage) :
       \E choice \in FallbackChoices(Self) :
           LET new == process_user_input(Self, user_input, svc, choice)
           IN  /\ WithinBounds(new)
               /\ Becomes(new)
    /\ UNCHANGED << conversation_started, given_text, result >>

\* the form, offered while the conversation is started and not complete: a
\* text that is not blank is sent to process_user_input
SendInput ==
    /\ conversation_started
    /\ ~ conversation_complete
    /\ \E user_input \in { text \in Inputs : Strip(text) # << >> } :
       \E analysis \in AnalysisAnswers(Self, user_input) :
       WithinBounds(_analyze_user_input(Self, user_input, analysis)) /\
       \E stage \in StageAnswers(Self, user_input, analysis) :
       \E svc \in RewriteAnswers(_analyze_user_input(Self, user_input, analysis),
                                 Composes(Self, user_input), stage) :
       \E choice \in FallbackChoices(Self) :
           LET new == process_user_input(Self, user_input, svc, choice)
           IN  /\ WithinBounds(new)
               /\ Becomes(new)
    /\ UNCHANGED << conversation_started, given_text, result >>

\* the End button, offered next to the form: end_conversation()
EndButton ==
    /\ conversation_started
    /\ ~ conversation_complete
    /\ \E svc \in RewriteAnswers(Self, TRUE, NoAnswers) :
           LET new == end_conversation(Self, svc)
           IN  /\ WithinBounds(new)
               /\ Becomes(new)
    /\ UNCHANGED << conversation_started, given_text, result >>

\* the reset button, offered once the conversation is complete: the session
\* state is cleared, and the next run of main constructs a new HiringAssistant
ResetButton ==
    /\ conversation_started
    /\ conversation_complete
    /\ current_stage' = "greeting"
    /\ candidate_data' = [ k \in {} |-> << >> ]
    /\ technical_questions' = << >>
    /\ current_question_index' = 0
    /\ current_message' = << >>
    /\ conversation_complete' = FALSE
    /\ conversation_context' = << >>
    /\ sentiment_history' = << >>
    /\ detected_language' = << "e","n" >>
    /\ response_times' = 0
    /\ conversation_started' = FALSE
    /\ UNCHANGED << client, given_text, result >>

NextMain == StartConversation \/ SendInput \/ EndButton \/ ResetButton

SpecMain == Init /\ [][NextMain]_vars

(***************************************************************************)
(* Vocabulary of the properties                                            *)
(***************************************************************************)
\* the position of a stage in the fixed order of the stages
StageIndex(stage) ==
    CHOOSE i \in DOMAIN ConversationStage : ConversationStage[i] = stage

\* the step is a process_user_input call that processed a non-empty input:
\* it appended the input to the transcript
UserTurn ==
    /\ Len(conversation_context') > Len(conversation_context)
    /\ conversation_context'[Len(conversation_context) + 1].role = "user"

\* the input of that call
TurnInput == conversation_context'[Len(conversation_context) + 1].content

\* the termination words
TerminationWords ==
    { << "b","y","e" >>, << "g","o","o","d","b","y","e" >>, << "e","x","i","t" >>,
      << "q","u","i","t" >>, << "e","n","d" >>, << "s","t","o","p" >>,
      << "f","i","n","i","s","h" >>, << "d","o","n","e" >>,
      << "c","a","n","c","e","l" >>, << "t","e","r","m","i","n","a","t","e" >>,
      << "c","l","o","s","e" >>, << "l","e","a","v","e" >> }

\* the inputs that contain a termination word, case-insensitively
TerminationInputs ==
    { text \in Inputs : \E word \in TerminationWords : Contains(Lower(text), word) }

\* message ends with text: the message is text, possibly rewritten
EndsWith(message, text) ==
    /\ Len(message) >= Len(text)
    /\ SubSeq(message, Len(message) - Len(text) + 1, Len(message)) = text

\* the last entries of the transcript are a user entry holding text and an
\* assistant entry holding the current message
EndedBy(text) ==
    LET n == Len(conversation_context)
    IN  /\ n >= 2
        /\ conversation_context[n - 1] = [ role |-> "user", content |-> text ]
        /\ conversation_context[n] = [ role |-> "assistant", content |-> current_message ]

(***************************************************************************)
(* Properties                                                              *)
(***************************************************************************)
\* C1: the index of the current stage in the fixed order of the stages never
\* decreases from one turn to the next
C1_StageNeverDecreases ==
    [][StageIndex(current_stage') >= StageIndex(current_stage)]_vars

\* C1: a conversation that stayed in a stage on a rejected input and then
\* went on to the questions
C1_Witness ==
    /\ current_stage = "ask_questions"
    /\ current_question_index >= 1
    /\ \E i \in DOMAIN conversation_context :
           conversation_context[i] = [ role |-> "user", content |-> InFiller ]
    /\ "desired_positions" \in DOMAIN candidate_data
    /\ candidate_data["desired_positions"] = Strip(InFull)

\* C2: once the conversation is complete, no process_user_input call adds,
\* removes or changes a field of the record
C2_RecordFrozenOnceComplete ==
    [][(conversation_complete /\ UserTurn) => candidate_data' = candidate_data]_vars

\* C3: once the completion flag is set it is never cleared and the stage
\* never changes again
C3_CompleteIsTerminal ==
    [][conversation_complete =>
          (conversation_complete' /\ current_stage' = current_stage)]_vars

\* C4: from every stage but the terminal one, a non-empty input that holds
\* a termination word completes the conversation within the turn, and the
\* current message is the closing message
C4_KeywordCompletes ==
    [][(UserTurn /\ TurnInput \in TerminationInputs /\ current_stage # "complete") =>
          /\ conversation_complete'
          /\ EndsWith(current_message', EndingMessage(candidate_data'))]_vars

\* C4: a conversation ended by a termination word during the questions
C4_Witness ==
    /\ current_stage = "ask_questions"
    /\ conversation_complete
    /\ EndedBy(InQuit)
    /\ EndsWith(current_message, EndingMessage(candidate_data))

\* C5: a turn whose input holds a termination word leaves the record and
\* the question pointer as they were, whatever the input holds besides
C5_KeywordBeforeStage ==
    [][(UserTurn /\ TurnInput \in TerminationInputs) =>
          /\ candidate_data' = candidate_data
          /\ current_question_index' = current_question_index]_vars

\* C5: a conversation ended at the email prompt by an input that holds a
\* termination word and an email address, with no email stored
C5_Witness ==
    /\ current_stage = "collect_email"
    /\ conversation_complete
    /\ EndedBy(InQuit)
    /\ validator.extract_email[InQuit] # None
    /\ DOMAIN candidate_data = { "full_name" }

\* C6: whenever the completion flag is set the current stage is the
\* terminal one
C6_CompleteMeansStageComplete ==
    conversation_complete => current_stage = "complete"

\* the stages that store what an extractor finds
ExtractionStages == { "collect_email", "collect_phone", "collect_experience" }

\* the field such a stage stores
StageField(stage) ==
    CASE stage = "collect_email" -> "email"
      [] stage = "collect_phone" -> "phone"
      [] stage = "collect_experience" -> "years_experience"

\* what the extractor of such a stage returns for text
Extracted(stage, text) ==
    CASE stage = "collect_email" -> validator.extract_email[text]
      [] stage = "collect_phone" -> validator.extract_phone[text]
      [] stage = "collect_experience" -> validator.extract_experience[text]

\* the re-prompt of such a stage
Reprompt(stage) ==
    CASE stage = "collect_email" ->
             << "Please provide a valid email address (e.g., john.doe@example.com):" >>
      [] stage = "collect_phone" ->
             << "Please provide a valid phone number (e.g., +1-555-123-4567, (555) 123-4567, etc.):" >>
      [] stage = "collect_experience" ->
             << "Please provide your years of experience as a number (e.g., 2, 3.5, 0 for fresh graduate):" >>

\* the turn is one of an extraction stage, on an input without termination word
ExtractionTurn ==
    /\ UserTurn
    /\ TurnInput \notin TerminationInputs
    /\ current_stage \in ExtractionStages

\* C7: at the email, phone and experience stages, the value the extractor
\* returns is stored under the stage's field, no other field changes, and the
\* stage becomes the next one of the order
C7_ExtractedValueStored ==
    [][(ExtractionTurn /\ Extracted(current_stage, TurnInput) # None) =>
          /\ candidate_data' = Put(candidate_data, StageField(current_stage),
                                   Extracted(current_stage, TurnInput)[1])
          /\ DOMAIN candidate_data' = DOMAIN candidate_data \cup { StageField(current_stage) }
          /\ current_stage' = ConversationStage[StageIndex(current_stage) + 1]]_vars

\* C7: the three stages have stored what the extractors found in InFull
C7_Witness ==
    /\ current_stage = "collect_position"
    /\ DOMAIN candidate_data = { "full_name", "email", "phone", "years_experience" }
    /\ candidate_data["email"] = << "a","@","b",".","c","o" >>
    /\ candidate_data["phone"] =
           << "(","5","5","5",")"," ","1","2","3","-","4","5","6","7" >>
    /\ candidate_data["years_experience"] = [ whole |-> << "3" >>, frac |-> << "5" >> ]

\* C8: at the email, phone and experience stages, an input in which the
\* extractor finds nothing leaves the stage, the record, the completion flag,
\* the questions and the pointer as they were; the message becomes the
\* re-prompt of the stage
C8_RetrySelfLoop ==
    [][(ExtractionTurn /\ Extracted(current_stage, TurnInput) = None) =>
          /\ current_stage' = current_stage
          /\ candidate_data' = candidate_data
          /\ conversation_complete' = conversation_complete
          /\ technical_questions' = technical_questions
          /\ current_question_index' = current_question_index
          /\ EndsWith(current_message', Reprompt(current_stage))]_vars

\* C8: the experience prompt has rejected two inputs in a row
C8_Witness ==
    LET n == Len(conversation_context)
    IN  /\ current_stage = "collect_experience"
        /\ ~ conversation_complete
        /\ n >= 2
        /\ conversation_context[n] = [ role |-> "user", content |-> InFiller ]
        /\ conversation_context[n - 1] = [ role |-> "user", content |-> InFiller ]
        /\ current_message = Reprompt("collect_experience")
        /\ DOMAIN candidate_data = { "full_name", "email", "phone" }

\* the filler words
FillerWords ==
    { << "n","o","t","h","i","n","g" >>, << "n","o","n","e" >>, << "n","/","a" >>,
      << "n","a" >>, << "i","d","k" >>,
      << "i"," ","d","o","n","'","t"," ","k","n","o","w" >>, << "n","o" >>,
      << "s","p","a","c","e" >>, << "a","s","d","f" >>,
      << "n","o"," ","i","d","e","a" >>, << "w","h","a","t","e","v","e","r" >> }

\* the inputs whose whole trimmed, lower-cased text is a filler word
FillerInputs == { text \in Inputs : Lower(Strip(text)) \in FillerWords }

\* C9: at the position, location and tech stack stages an input that is a
\* filler word is rejected: nothing is stored and the stage stays
C9_FillerRejected ==
    [][(/\ UserTurn
        /\ TurnInput \in FillerInputs
        /\ current_stage \in { "collect_position", "collect_location",
                               "collect_tech_stack" }) =>
          /\ candidate_data' = candidate_data
          /\ current_stage' = current_stage]_vars

\* C10: at the tech stack stage, an accepted submission whose question
\* generation call is not made (no service) or raises leaves the fallback
\* list of 3 to 5 questions, pointer 0, stage ask_questions, and a
\* conversation that is not complete
C10_FallbackWhenServiceFails ==
    (conversation_started /\ current_stage = "collect_tech_stack") =>
        \A user_input \in Inputs \ TerminationInputs :
        \A analysis \in AnalysisAnswers(Self, user_input) :
        \A svc \in RewriteAnswers(_analyze_user_input(Self, user_input, analysis),
                                  Composes(Self, user_input), analysis) :
            (Strip(user_input) # << >> /\ svc.questions = None) =>
                LET after == process_user_input(Self, user_input, svc,
                                                CHOOSE r \in FallbackResponses : TRUE)
                    fallback == _get_fallback_questions(user_input)
                IN  /\ after.technical_questions = fallback
                    /\ Len(fallback) \in 3 .. 5
                    /\ after.current_question_index = 0
                    /\ after.current_stage = "ask_questions"
                    /\ ~ after.conversation_complete

\* the answers the service can give to the calls process_user_input(user_input)
\* makes on the object self
ServiceAnswers(self, user_input) ==
    UNION { UNION { RewriteAnswers(_analyze_user_input(self, user_input, analysis),
                                   Composes(self, user_input), stage) :
                      stage \in StageAnswers(self, user_input, analysis) } :
              analysis \in AnalysisAnswers(self, user_input) }

\* the inputs a stage handler is dispatched on: not blank, no termination word
HandledInputs == { text \in Inputs \ TerminationInputs : Strip(text) # << >> }

\* the response random.choice picks where the stage has a handler
NoChoice == CHOOSE r \in FallbackResponses : TRUE

\* the answer holds text of which no line gives a question
Unparsable(answer) ==
    /\ answer # None
    /\ answer[1] # << >>
    /\ ParseQuestions(SplitLines(Strip(answer[1]))) = << >>

\* C11: once a tech stack is stored the question list is not empty, and a
\* submission whose generation answer holds no parsable question leaves the
\* fallback list, the stage ask_questions and a conversation that goes on
C11_FallbackWhenNothingParsed ==
    /\ "tech_stack" \in DOMAIN candidate_data => technical_questions # << >>
    /\ (conversation_started /\ current_stage = "collect_tech_stack") =>
           \A user_input \in HandledInputs :
           \A svc \in ServiceAnswers(Self, user_input) :
               Unparsable(svc.questions) =>
                   LET after == process_user_input(Self, user_input, svc, NoChoice)
                   IN  /\ after.technical_questions = _get_fallback_questions(user_input)
                       /\ after.current_stage = "ask_questions"
                       /\ after.conversation_complete = conversation_complete

\* the turn answers a question that is still open
AnswerTurn ==
    /\ UserTurn
    /\ TurnInput \notin TerminationInputs
    /\ current_stage = "ask_questions"
    /\ current_question_index < Len(technical_questions)

\* C12: during the questions each answer is stored, trimmed, under
\* question_k_answer for the k-th question and nothing else of the record
\* changes; the conversation is complete after the answer to the last
\* question and not complete after an answer before it
C12_AnswersStoredInOrder ==
    [][AnswerTurn =>
          /\ candidate_data' = Put(candidate_data,
                                   QuestionKey(current_question_index + 1),
                                   Strip(TurnInput))
          /\ current_question_index' = current_question_index + 1
          /\ conversation_complete'
                 <=> (current_question_index + 1 = Len(technical_questions))]_vars

\* what a turn decides of the dialogue
Outcome(self) ==
    [ current_stage |-> self.current_stage,
      candidate_data |-> self.candidate_data,
      technical_questions |-> self.technical_questions,
      current_question_index |-> self.current_question_index,
      conversation_complete |-> self.conversation_complete ]

\* C14: for the same object and the same input, the stage, the record, the
\* questions, the pointer and the completion flag after process_user_input
\* are the same whatever the sentiment, language, personalisation and
\* translation calls answer, the same as when they all fail, and, when the
\* other calls fail too, the same as without a service
C14_EnrichmentKeepsOutcome ==
    conversation_started =>
        \A user_input \in Inputs :
            LET absent == Outcome(process_user_input([ Self EXCEPT !.client = FALSE ],
                                                     user_input, NoAnswers, NoChoice))
            IN  \A stage \in StageAnswers(Self, user_input, NoAnswers) :
                    LET plain == Outcome(process_user_input(Self, user_input, stage,
                                                            NoChoice))
                    IN  /\ (stage.name = None /\ stage.questions = None) => plain = absent
                        /\ \A analysis \in AnalysisAnswers(Self, user_input) :
                           \A svc \in RewriteAnswers(
                                          _analyze_user_input(Self, user_input, analysis),
                                          Composes(Self, user_input),
                                          [ stage EXCEPT !.lang = analysis.lang,
                                                         !.sentiment = analysis.sentiment ]) :
                               Outcome(process_user_input(Self, user_input, svc, NoChoice))
                                   = plain

\* C14: a conversation whose language and sentiment were detected and whose
\* message was translated, past the greeting
C14_Witness ==
    /\ client
    /\ detected_language = << "h","i" >>
    /\ sentiment_history # << >>
    /\ current_stage = "collect_email"
    /\ current_message[1] = "(in "

\* C15: end_conversation sets the completion flag and appends one entry, the
\* closing message, to the transcript; on a complete conversation
\* end_conversation, and a turn whose input holds a termination word, leave
\* the object as it is
C15_EndingTwiceChangesNothing ==
    conversation_started =>
        /\ \A svc \in RewriteAnswers(Self, TRUE, NoAnswers) :
               LET after == end_conversation(Self, svc)
               IN  /\ after.conversation_complete
                   /\ EndsWith(after.current_message, EndingMessage(candidate_data))
                   /\ after.conversation_context =
                          Append(conversation_context,
                                 [ role |-> "assistant",
                                   content |-> after.current_message ])
                   /\ conversation_complete => after = Self
        /\ conversation_complete =>
               \A user_input \in TerminationInputs :
               \A svc \in ServiceAnswers(Self, user_input) :
                   process_user_input(Self, user_input, svc, NoChoice) = Self

\* the stages that ask for the name
NameStages == { "greeting", "collect_name" }

\* the service answers the name prompt with NONE or with a single token
Refused(answer) ==
    /\ answer # None
    /\ answer[1] # << >>
    /\ \/ Upper(Strip(answer[1])) = << "N","O","N","E" >>
       \/ Len(Split(Strip(answer[1]))) < 2

\* the re-prompt of a name stage
NameReprompt(stage) ==
    CASE stage = "greeting" ->
             << "I'd like to make sure I have your name correctly. Could you please provide your full name (first and last name)?" >>
      [] stage = "collect_name" ->
             << "I need your full name to proceed. Please provide your first and last name:" >>

\* C16: in the name stages, when the service answers the name prompt with
\* NONE or with a single token, no full_name is stored and the stage does
\* not become collect_email, whatever the input
C16_RefusedNameNotStored ==
    (conversation_started /\ client /\ current_stage \in NameStages) =>
        \A user_input \in HandledInputs :
        \A svc \in ServiceAnswers(Self, user_input) :
            Refused(svc.name) =>
                LET after == process_user_input(Self, user_input, svc, NoChoice)
                IN  /\ "full_name" \notin DOMAIN after.candidate_data
                    /\ after.current_stage # "collect_email"

\* C17: a stored full_name has at least two tokens; in the name stages,
\* without a service or with the name call failing, the name stored is the
\* first two tokens of the input, and none for an input of fewer tokens
C17_NameHasTwoTokens ==
    /\ "full_name" \in DOMAIN candidate_data =>
           Len(Split(candidate_data["full_name"])) >= 2
    /\ (conversation_started /\ current_stage \in NameStages) =>
           \A user_input \in HandledInputs :
           \A svc \in ServiceAnswers(Self, user_input) :
               (~ client \/ svc.name = None) =>
                   LET after == process_user_input(Self, user_input, svc, NoChoice)
                       tokens == Split(user_input)
                   IN  IF Len(tokens) >= 2
                       THEN after.candidate_data =
                                Put(candidate_data, "full_name",
                                    tokens[1] \o << " " >> \o tokens[2])
                       ELSE "full_name" \notin DOMAIN after.candidate_data

\* C17: without a service, a one-token input stored no name and the next
\* input stored its first two tokens
C17_Witness ==
    /\ ~ client
    /\ current_stage = "collect_email"
    /\ Len(conversation_context) = 3
    /\ conversation_context[2] = [ role |-> "user", content |-> InFiller ]
    /\ conversation_context[3] = [ role |-> "user", content |-> InFull ]
    /\ candidate_data = [ full_name |-> << "A","l"," ","B","o" >> ]

\* C18 as stated: in both name stages a failed name extraction leaves the
\* stage as it was and a re-prompt as the message
C18_NameFailureKeepsStage ==
    (conversation_started /\ current_stage \in NameStages) =>
        \A user_input \in HandledInputs :
        \A svc \in ServiceAnswers(Self, user_input) :
            _extract_name_with_ai(Self, user_input, svc.name) = None =>
                LET after == process_user_input(Self, user_input, svc, NoChoice)
                IN  /\ after.current_stage = current_stage
                    /\ EndsWith(after.current_message, NameReprompt(current_stage))

\* C18 amended: a failed name extraction stores nothing and leaves the
\* re-prompt of the stage as the message; the stage after it is collect_name,
\* from collect_name and from greeting
C18_NameFailureAsksAgain ==
    (conversation_started /\ current_stage \in NameStages) =>
        \A user_input \in HandledInputs :
        \A svc \in ServiceAnswers(Self, user_input) :
            _extract_name_with_ai(Self, user_input, svc.name) = None =>
                LET after == process_user_input(Self, user_input, svc, NoChoice)
                IN  /\ after.current_stage = "collect_name"
                    /\ after.candidate_data = candidate_data
                    /\ EndsWith(after.current_message, NameReprompt(current_stage))

\* C18: the name was refused at the greeting and again at collect_name
C18_Witness ==
    /\ current_stage = "collect_name"
    /\ Len(conversation_context) = 3
    /\ conversation_context[2] = [ role |-> "user", content |-> InFiller ]
    /\ conversation_context[3] = [ role |-> "user", content |-> InFiller ]
    /\ current_message = NameReprompt("collect_name")
    /\ "full_name" \notin DOMAIN candidate_data

\* the fields of the collection stages, in the order of the stages
CollectedFields ==
    << "full_name", "email", "phone", "years_experience", "desired_positions",
       "location", "tech_stack" >>

\* the i-th field of the order: the collected fields, then the answers
FieldAt(i) ==
    IF i <= Len(CollectedFields) THEN CollectedFields[i]
    ELSE QuestionKey(i - Len(CollectedFields))

\* C19: the fields of the record are the first fields of the order
\* full_name, email, phone, years_experience, desired_positions, location,
\* tech_stack, question_1_answer, question_2_answer, ...
C19_FieldsFormPrefix ==
    DOMAIN candidate_data =
        { FieldAt(i) : i \in 1 .. Cardinality(DOMAIN candidate_data) }

\* C19: a record filled up to the answer to the second question
C19_Witness ==
    /\ Cardinality(DOMAIN candidate_data) = Len(CollectedFields) + 2
    /\ QuestionKey(2) \in DOMAIN candidate_data
    /\ current_question_index = 2

\* the field the handler of a stage stores, with the pointer at index
StoredBy(stage, index) ==
    CASE stage \in NameStages -> "full_name"
      [] stage \in ExtractionStages -> StageField(stage)
      [] stage = "collect_position" -> "desired_positions"
      [] stage = "collect_location" -> "location"
      [] stage = "collect_tech_stack" -> "tech_stack"
      [] stage = "ask_questions" -> QuestionKey(index + 1)
      [] OTHER -> "none"

\* C20: whatever public operation is called, every stored field stays in
\* the record, and keeps its value unless the step is a turn of the stage
\* that stores the field
C20_FieldsKeptAndOverwrittenByOwnStage ==
    [][\A k \in DOMAIN candidate_data :
          /\ k \in DOMAIN candidate_data'
          /\ candidate_data'[k] # candidate_data[k] =>
                 (UserTurn /\ k = StoredBy(current_stage, current_question_index))]_vars

\* C20: the name the service found was stored; after a second
\* start_conversation the greeting stage stored the first two words of the
\* input in its place
C20_Witness ==
    /\ Len(conversation_context) = 4
    /\ \A i \in { 1, 3 } :
           conversation_context[i] = [ role |-> "assistant", content |-> GreetingMessage ]
    /\ \A i \in { 2, 4 } :
           conversation_context[i] = [ role |-> "user", content |-> InFull ]
    /\ client
    /\ current_stage = "collect_email"
    /\ candidate_data = [ full_name |-> << "A","l"," ","B","o" >> ]

\* C21: every stored question_<n>_answer has 1 <= n <= the number of
\* generated questions, and the question pointer never exceeds that number
C21_AnswersWithinQuestions ==
    /\ current_question_index <= Len(technical_questions)
    /\ \A key \in DOMAIN candidate_data :
       \A n \in 0 .. Len(conversation_context) :
           key = QuestionKey(n) => (1 <= n /\ n <= Len(technical_questions))

\* the list items of the service's answer: the lines _generate_technical_questions
\* keeps as questions
ParsedQuestions(answer) == ParseQuestions(SplitLines(Strip(answer[1])))

\* C22: the generated question list holds at most 5 questions in every state,
\* whether it came from the service or from the fallback list
C22_AtMostFiveQuestions == Len(technical_questions) <= 5

\* C22: the questions were taken from an answer of the service that holds
\* more than 5 list items
C22_Witness ==
    /\ current_stage = "ask_questions"
    /\ \E answer \in QuestionAnswers \ { None } :
           /\ Len(ParsedQuestions(answer)) > 5
           /\ technical_questions = SubSeq(ParsedQuestions(answer), 1, 5)

\* C23: in no state between two calls is the current stage GenerateQuestions,
\* whether the question generation succeeds, falls back or fails
C23_GenerateQuestionsTransient == current_stage # "generate_questions"

\* C23: a tech stack was submitted and no question came of it: the
\* conversation was ended within the turn
C23_Witness ==
    /\ "tech_stack" \in DOMAIN candidate_data
    /\ technical_questions = << >>
    /\ conversation_complete
    /\ current_stage = "ask_questions"

\* C24: once the conversation is complete, a further non-empty input without
\* termination word sets the current message to one of the four fallback
\* messages and changes nothing else (the turn itself is recorded)
C24_FallbackOnceComplete ==
    [][(conversation_complete /\ UserTurn /\ TurnInput \notin TerminationInputs) =>
          /\ current_message' \in FallbackResponses
          /\ UNCHANGED << current_stage, candidate_data, technical_questions,
                          current_question_index, conversation_complete >>]_vars

\* C25: the transcript is append-only: no step removes or changes an entry,
\* and process_user_input on a non-empty input appends exactly one user entry,
\* which holds the input as it was given
C25_TranscriptAppendOnly ==
    /\ [][/\ Len(conversation_context') >= Len(conversation_context)
          /\ SubSeq(conversation_context', 1, Len(conversation_context))
                 = conversation_context]_vars
    /\ [](\A user_input \in Inputs :
             Strip(user_input) # << >> =>
                 \A analysis \in AnalysisAnswers(Self, user_input) :
                 \A stage \in StageAnswers(Self, user_input, analysis) :
                 \A svc \in RewriteAnswers(_analyze_user_input(Self, user_input, analysis),
                                           Composes(Self, user_input), stage) :
                     LET after == process_user_input(Self, user_input, svc, NoChoice).conversation_context
                         n == Len(conversation_context)
                     IN  /\ Len(after) > n
                         /\ SubSeq(after, 1, n) = conversation_context
                         /\ after[n + 1] = [ role |-> "user", content |-> user_input ]
                         /\ \A i \in n + 2 .. Len(after) : after[i].role # "user")

\* C25: a transcript of a greeting, a padded input and a further input
C25_Witness ==
    /\ Len(conversation_context) = 3
    /\ conversation_context[1] = [ role |-> "assistant", content |-> GreetingMessage ]
    /\ conversation_context[2] = [ role |-> "user", content |-> InFiller ]
    /\ conversation_context[3] = [ role |-> "user", content |-> InFull ]

\* text is one address local@domain.tld: one "@", a local part of 1 to 64
\* address characters that starts with a letter or digit, a domain of at
\* most 253 letters, digits, dots and hyphens that ends with a dot and two
\* or more letters
IsAddress(t) ==
    /\ CountChar(t, "@") = 1
    /\ LET at == CHOOSE i \in DOMAIN t : t[i] = "@"
           local == Slice(t, 1, at - 1)
           domain == Slice(t, at + 1, Len(t))
           dots == { i \in DOMAIN domain : domain[i] = "." }
       IN  /\ local # << >>
           /\ Len(local) <= 64
           /\ local[1] \in Letters \cup Digits
           /\ \A i \in DOMAIN local : local[i] \in Letters \cup Digits \cup { ".", "_", "%", "+", "-" }
           /\ Len(domain) <= 253
           /\ \A i \in DOMAIN domain : domain[i] \in Letters \cup Digits \cup { ".", "-" }
           /\ dots # {}
           /\ LET last == CHOOSE i \in dots : \A j \in dots : j <= i
              IN  /\ last > 1
                  /\ Len(domain) - last >= 2
                  /\ \A i \in last + 1 .. Len(domain) : domain[i] \in Letters

\* C26: extract_email returns absent for a text without "@" and for a text
\* with two or more "@", and for a text that is one valid address it returns
\* that address in lower case
C26_EmailAbsentOrLowered ==
    result.method = "extract_email" =>
        /\ CountChar(given_text, "@") # 1 => result.value = None
        /\ IsAddress(given_text) => result.value = Some(Lower(given_text))

\* text holds digits only
AllDigits(t) == \A i \in DOMAIN t : t[i] \in Digits

\* the number of digits of text
DigitCount(t) == Cardinality({ i \in DOMAIN t : t[i] \in Digits })

\* the digits of text, in order
DigitsOf(t) == SelectSeq(t, LAMBDA c : c \in Digits)

\* text without the characters that are no digit, sign, bracket, dot or space
PhoneCharsOf(t) ==
    SelectSeq(t, LAMBDA c : c \in Digits \cup { "+", "-", "(", ")", ".", " ", "\t", "\n" })

\* C27: a string of exactly 10 digits gives "(ddd) ddd-dddd", a string of
\* exactly 11 digits that starts with 1 gives "+1 (ddd) ddd-dddd" of the
\* other ten, and a number of any other digit count is returned as the piece
\* of the text that was matched
C27_PhoneFormats ==
    result.method = "extract_phone" =>
        LET t == given_text
            value == result.value
        IN  /\ (AllDigits(t) /\ Len(t) = 10) =>
                   value = Some(<< "(", t[1], t[2], t[3], ")", " ", t[4], t[5], t[6], "-",
                                   t[7], t[8], t[9], t[10] >>)
            /\ (AllDigits(t) /\ Len(t) = 11 /\ t[1] = "1") =>
                   value = Some(<< "+", "1", " ", "(", t[2], t[3], t[4], ")", " ",
                                   t[5], t[6], t[7], "-", t[8], t[9], t[10], t[11] >>)
            /\ (/\ value # None
                /\ DigitCount(value[1]) # 10
                /\ ~ (DigitCount(value[1]) = 11 /\ DigitsOf(value[1])[1] = "1")) =>
                   Contains(PhoneCharsOf(t), value[1])

\* C27: extract_phone was called on a string of 11 digits that starts with 1
C27_Witness ==
    /\ given_text = << "1","2","3","4","5","6","7","8","9","0","1" >>
    /\ result = [ method |-> "extract_phone",
                  value |-> Some(<< "+","1"," ","(","2","3","4",")"," ","5","6","7","-",
                                    "8","9","0","1" >>) ]

\* C28: extract_phone returns no value whose digit count is outside 10..15,
\* a text of fewer than 10 digits gives absent, and a phone stored in the
\* candidate's record has between 10 and 15 digits
C28_PhoneDigitCount ==
    /\ result.method = "extract_phone" =>
           /\ result.value # None => DigitCount(result.value[1]) \in 10 .. 15
           /\ DigitCount(given_text) < 10 => result.value = None
    /\ "phone" \in DOMAIN candidate_data =>
           DigitCount(candidate_data["phone"]) \in 10 .. 15

\* C28: a text of 16 digits was given as the phone number and to extract_phone
C28_Witness ==
    /\ AllDigits(given_text)
    /\ Len(given_text) = 16
    /\ result.method = "extract_phone"
    /\ result.value # None
    /\ "phone" \in DOMAIN candidate_data
    /\ candidate_data["phone"] = result.value[1]
    /\ DigitCount(candidate_data["phone"]) = 13

\* the piece i..j of text is a numeral: digits, or digits "." digits, with no
\* letter, digit or underscore next to either end
IsNumeral(t, i, j) ==
    /\ 1 <= i /\ i <= j /\ j <= Len(t)
    /\ t[i] \in Digits /\ t[j] \in Digits
    /\ \A k \in i .. j : t[k] \in Digits \cup { "." }
    /\ Cardinality({ k \in i .. j : t[k] = "." }) <= 1
    /\ i = 1 \/ t[i - 1] \notin WordChars
    /\ j = Len(t) \/ t[j + 1] \notin WordChars

\* the first numeral of text: the longest one at the earliest place, or none
FirstNumeral(t) ==
    LET places == { p \in (DOMAIN t) \X (DOMAIN t) : IsNumeral(t, p[1], p[2]) }
    IN  IF places = {} THEN None
        ELSE LET p == CHOOSE a \in places :
                          \A b \in places : a[1] < b[1] \/ (a[1] = b[1] /\ a[2] >= b[2])
             IN  Some(SubSeq(t, p[1], p[2]))

\* the number lies in [0, 50]
WithinFifty(q) ==
    \/ Len(q.whole) = 1
    \/ Len(q.whole) = 2 /\ q.whole[1] \in { "1", "2", "3", "4" }
    \/ q.whole = << "5", "0" >> /\ q.frac = << >>

\* what the words of text stand for: 0.0, 0.5 or nothing
WordsExperience(t) ==
    IF \E word \in { << "f","r","e","s","h" >>, << "g","r","a","d","u","a","t","e" >>,
                     << "e","n","t","r","y" >>, << "n","e","w" >>,
                     << "b","e","g","i","n","n","e","r" >> } : Contains(Lower(t), word)
    THEN Some([ whole |-> << "0" >>, frac |-> << >> ])
    ELSE IF Contains(Lower(t), << "i","n","t","e","r","n" >>)
    THEN Some([ whole |-> << "0" >>, frac |-> << "5" >> ])
    ELSE None

\* C29: extract_experience returns the first numeral of the text when it lies
\* in [0, 50]; when it lies outside or there is none, 0.0 for a text with
\* fresh, graduate, entry, new or beginner, else 0.5 for one with intern, else
\* absent; and a years_experience stored in the record lies in [0, 50]
C29_ExperienceFirstNumeral ==
    /\ result.method = "extract_experience" =>
           LET first == FirstNumeral(given_text)
           IN  IF first # None /\ WithinFifty(Float(first[1]))
               THEN result.value = Some(Float(first[1]))
               ELSE result.value = WordsExperience(given_text)
    /\ "years_experience" \in DOMAIN candidate_data =>
           WithinFifty(candidate_data["years_experience"])

\* C29: a text whose first numeral is 99 and whose second is 7 was given as
\* the experience and to extract_experience
C29_Witness ==
    /\ given_text = << "9","9"," ","a","n","d"," ","7" >>
    /\ result = [ method |-> "extract_experience", value |-> None ]
    /\ current_stage = "collect_experience"
    /\ \E i \in DOMAIN conversation_context :
           /\ conversation_context[i] = [ role |-> "user", content |-> given_text ]
           /\ "phone" \in DOMAIN candidate_data
           /\ "years_experience" \notin DOMAIN candidate_data

\* C30: sanitize_text applied to its own result gives that result again; the
\* result holds none of the characters <, >, ", ', no two whitespace
\* characters in a row, and at most 1000 characters
C30_SanitizeIdempotent ==
    result.method = "sanitize_text" =>
        LET once == result.value
        IN  /\ sanitize_text(once) = once
            /\ \A i \in DOMAIN once : once[i] \notin { "<", ">", "\"", "'" }
            /\ \A i \in 1 .. Len(once) - 1 :
                   ~ (once[i] \in { " ", "\t", "\n" } /\ once[i + 1] \in { " ", "\t", "\n" })
            /\ Len(once) <= 1000

\* C30: sanitize_text was called on a text of more than 1000 characters with
\* markup and a run of spaces, and cut it
C30_Witness ==
    /\ result.method = "sanitize_text"
    /\ Len(given_text) > 1000
    /\ given_text[1] = "<"
    /\ Len(result.value) = 999
    /\ result.value[998] = " "
    /\ result.value[999] = "y"

\* the fields of the record that hold free text
FreeTextKeys ==
    { "desired_positions", "location", "tech_stack" } \cup { QuestionKey(n) : n \in 1 .. 7 }

\* C31: every free-text value of the record (desired_positions, location,
\* tech_stack, question_<n>_answer) equals sanitize_text of itself: it holds
\* none of <, >, ", ' and at most 1000 characters
C31_FreeTextSanitized ==
    \A key \in FreeTextKeys \cap DOMAIN candidate_data :
        LET value == candidate_data[key]
        IN  /\ sanitize_text(value) = value
            /\ \A i \in DOMAIN value : value[i] \notin { "<", ">", "\"", "'" }
            /\ Len(value) <= 1000

\* the empty and the whitespace-only texts
BlankInputs == { t \in Texts : \A i \in DOMAIN t : t[i] \in { " ", "\t", "\n" } }

\* answers of the service to the calls of one kind, the other calls failing:
\* the analysis of the input, the stage's prompts, the rewriting of the message
AnswersOfOneKind(self) ==
    { [ NoAnswers EXCEPT !.lang = lang, !.sentiment = sentiment ] :
        lang \in LangAnswers, sentiment \in SentimentAnswers }
    \cup { [ NoAnswers EXCEPT !.name = name, !.questions = questions ] :
             name \in NameAnswers, questions \in QuestionAnswers }
    \cup { [ NoAnswers EXCEPT !.dominant = dominant, !.personalize = personalize,
                              !.translate = translate ] :
             dominant \in { None } \cup DominantSentiments(self),
             personalize \in BOOLEAN, translate \in BOOLEAN }

\* C32: process_user_input on an empty or whitespace-only input leaves the
\* whole object as it is (stage, record, questions and pointer, completion
\* flag, current message, transcript, analytics), whatever the service
\* would answer and whatever response would be picked: no call to the
\* service has an effect
C32_BlankInputNoOp ==
    LET self == Self
    IN  \A user_input \in BlankInputs :
            /\ \A svc \in AnswersOfOneKind(self) :
                   process_user_input(self, user_input, svc,
                                      CHOOSE r \in FallbackResponses : TRUE) = self
            /\ \A choice \in FallbackResponses :
                   process_user_input(self, user_input, NoAnswers, choice) = self

\* C32: a whitespace-only input is given while a question is asked, with a
\* service at hand, and leaves the object as it is
C32_Witness ==
    /\ client
    /\ current_stage = "ask_questions"
    /\ ~ conversation_complete
    /\ current_question_index = 1
    /\ sentiment_history # << >>
    /\ InBlank \in BlankInputs
    /\ process_user_input(Self, InBlank, NoAnswers, CHOOSE r \in FallbackResponses : TRUE) = Self

\* the keys of the record that hold an answer to a question
AnswerKeys ==
    DOMAIN candidate_data \ { "full_name", "email", "phone", "years_experience",
                              "desired_positions", "location", "tech_stack" }

\* C33: while the stage is ask_questions and the conversation is not
\* complete, the list of questions is not empty, the pointer is at a question
\* of the list, and the answers stored are exactly those of the questions
\* before the pointer, each under the 1-based number of its question
C33_PointerAtQuestion ==
    (current_stage = "ask_questions" /\ ~ conversation_complete) =>
        /\ technical_questions # << >>
        /\ 0 <= current_question_index
        /\ current_question_index < Len(technical_questions)
        /\ AnswerKeys = { QuestionKey(n) : n \in 1 .. current_question_index }

\* C33: two of the questions the service generated are answered, more are
\* left
C33_Witness ==
    /\ client
    /\ current_stage = "ask_questions"
    /\ ~ conversation_complete
    /\ current_question_index = 2
    /\ Len(technical_questions) = 5
    /\ technical_questions[1] = << "Q","a","?" >>
    /\ AnswerKeys = { QuestionKey(1), QuestionKey(2) }

\* the step is a turn of a cooperative user: a non-empty input without a
\* termination word, given while the conversation is not complete
CooperativeTurn ==
    /\ UserTurn
    /\ ~ conversation_complete
    /\ TurnInput \notin TerminationInputs

\* the user entries of the transcript
UserEntries == { i \in DOMAIN conversation_context : conversation_context[i].role = "user" }

\* the conversation went from the greeting to the closing message, every
\* input being InFull, which every stage accepts, and ended on the answer to
\* the last question (or on the tech stack when no question was generated)
AllAccepted ==
    /\ conversation_complete
    /\ current_stage = "ask_questions"
    /\ current_question_index = Len(technical_questions)
    /\ DOMAIN conversation_context \ UserEntries = { 1, Len(conversation_context) }
    /\ \A i \in UserEntries : conversation_context[i].content = InFull

\* C34: a turn of a cooperative user either is accepted, and then stores
\* exactly one more field, or is rejected, and then changes nothing of the
\* record, the questions and the pointer, leaves the conversation open and
\* adds one turn; the conversation is complete after the turn exactly when
\* 7 + N fields are stored, N <= 5 being the number of generated questions.
\* So an open conversation holds fewer than 7 + N accepted inputs, and one
\* whose inputs were all accepted took exactly 7 + N inputs
C34_CompleteAfterSevenPlusN ==
    /\ [][CooperativeTurn =>
            LET before == Cardinality(DOMAIN candidate_data)
                after == Cardinality(DOMAIN candidate_data')
            IN  /\ after \in { before, before + 1 }
                /\ after = before =>
                       /\ candidate_data' = candidate_data
                       /\ technical_questions' = technical_questions
                       /\ current_question_index' = current_question_index
                       /\ current_stage' \in { current_stage, "collect_name" }
                       /\ ~ conversation_complete'
                       /\ Len(conversation_context') = Len(conversation_context) + 1
                /\ conversation_complete' <=> (after = 7 + Len(technical_questions'))]_vars
    /\ [](/\ Len(technical_questions) <= 5
          /\ ~ conversation_complete =>
                 Cardinality(DOMAIN candidate_data) < 7 + Len(technical_questions)
          /\ AllAccepted =>
                 /\ Cardinality(UserEntries) = 7 + Len(technical_questions)
                 /\ Cardinality(DOMAIN candidate_data) = 7 + Len(technical_questions))

\* C34: with five questions generated, the conversation is complete after 12
\* inputs, all accepted
C34_Witness ==
    /\ AllAccepted
    /\ Len(technical_questions) = 5
    /\ Cardinality(UserEntries) = 12
    /\ Len(conversation_context) = 14

\* the controller is a new instance: nothing is started and nothing stored
NewInstance ==
    /\ ~ conversation_started
    /\ current_stage = "greeting"
    /\ candidate_data = [ k \in {} |-> << >> ]
    /\ technical_questions = << >>
    /\ current_question_index = 0
    /\ current_message = << >>
    /\ ~ conversation_complete
    /\ conversation_context = << >>
    /\ sentiment_history = << >>
    /\ response_times = 0

\* C35: through the front end, once the conversation of an instance is
\* complete neither process_user_input nor end_conversation is called on it:
\* the only step left is the reset, which leaves a new instance with an
\* empty record
C35_OnlyResetOnceComplete ==
    [][conversation_complete => NewInstance']_vars

\* C35: the conversation is complete after the answer to the last of five
\* questions, and the front end offers the reset
C35_Witness ==
    /\ conversation_started
    /\ conversation_complete
    /\ Len(technical_questions) = 5
    /\ current_question_index = 5
    /\ ENABLED ResetButton
    /\ ~ ENABLED SendInput
    /\ ~ ENABLED EndButton

====
